---- MODULE Spec2Model ----
(***************************************************************************)
(* Certainty-factor inference engine of the fish-disease expert system:    *)
(* InferenceEngine.forward_chaining with its helpers (_inference_loop,     *)
(* _can_fire_rule, _fire_rule), backward_chaining, get_suggestions and     *)
(* diagnose, the fact store the engine drives, the trace recorder, the     *)
(* WorkingMemory class of core/working_memory.py, diagnose calls of two    *)
(* threads on the engine get_engine caches, and the question loop of the   *)
(* Diagnosis page (pages/1_Diagnosis.py).                                  *)
(*                                                                         *)
(* Certainty factors are Python floats.  They are modelled in fixed point: *)
(* the integer x stands for x / Scale, products and quotients are          *)
(* truncated towards zero at 1/Scale.  Scale is 10^6, so that the          *)
(* significance threshold 1e-6 of _fire_rule is exactly one unit.          *)
(***************************************************************************)
EXTENDS Integers, Sequences, FiniteSets, TLC

Scale == 1000 * 1000

\* 1e-6, the significance threshold of _fire_rule, in units of 1/Scale
Eps == 1

\* max(50, len(rules) * 3): the default of max_steps when no limit is given
DefaultMaxSteps == 50

StepsPerRule == 3

\* ------------------------------------------------------------------ bounds

\* limits passed to forward_chaining are drawn from 0..MaxLimit (or None)
MaxLimit == 1

\* forward_chaining calls made on one engine instance
MaxCalls == 2

\* write operations applied to one WorkingMemory object
MaxOps == 3

\* -------------------------------------------------------------- arithmetic

Abs(x) == IF x < 0 THEN -x ELSE x

Min2(a, b) == IF a <= b THEN a ELSE b

Max2(a, b) == IF a >= b THEN a ELSE b

\* a * b / Scale for a, b >= 0, computed in base-1000 limbs so that no
\* intermediate value leaves the 32-bit range
MulNat(a, b) ==
    LET ah == a \div 1000
        al == a % 1000
        bh == b \div 1000
        bl == b % 1000
    IN  ah * bh + ((ah * bl + al * bh) + ((al * bl) \div 1000)) \div 1000

\* float multiplication a * b
Mul(a, b) ==
    IF (a < 0) = (b < 0) THEN MulNat(Abs(a), Abs(b))
    ELSE -MulNat(Abs(a), Abs(b))

\* a * Scale / b for a >= 0, b > 0, by long division in base 1000
DivNat(a, b) ==
    LET q  == a \div b
        r  == a % b
        d1 == (r * 1000) \div b
        r1 == (r * 1000) % b
        d2 == (r1 * 1000) \div b
    IN  q * Scale + d1 * 1000 + d2

\* float division a / b, b # 0
Div(a, b) ==
    IF (a < 0) = (b < 0) THEN DivNat(Abs(a), Abs(b))
    ELSE -DivNat(Abs(a), Abs(b))

\* min(1.0, max(0.0, x))
Clamp(x) == Min2(Scale, Max2(0, x))

\* round(x, 3) of ReasoningStep.to_row
Round3(x) ==
    IF x >= 0 THEN ((x + 500) \div 1000) * 1000
    ELSE -(((-x + 500) \div 1000) * 1000)

\* min() of a non-empty sequence of numbers
RECURSIVE MinSeq(_)
MinSeq(s) ==
    IF Len(s) = 1 THEN s[1] ELSE Min2(s[1], MinSeq(Tail(s)))

SeqToSet(s) == {s[i] : i \in 1..Len(s)}

\* ------------------------------------------------------------- rule bases

\* rule.get("CF", 1.0) of a rule that carries no CF key
NoCF == -1000 * Scale

\* a rule without a THEN key: rule.get("THEN") is None
NoThen == ""

\* a rule record {IF: [...], THEN: ..., CF: ...} under its id; the keys IF and
\* THEN are written If and Then
Rule(id, if, then, cf) == [id |-> id, If |-> if, Then |-> then, CF |-> cf]

\* the rule base of TestInferenceEngine.setup_method
TestRules ==
    << Rule("R1", <<"G1", "G2">>, "P1", 800000),
       Rule("R2", <<"G2", "G3">>, "P2", 700000),
       Rule("R3", <<"P1", "G3">>, "P3", 900000) >>

\* R1 and R3 alone: the chained derivation G1,G2 -> P1, P1,G3 -> P3
ChainRules ==
    << Rule("R1", <<"G1", "G2">>, "P1", 800000),
       Rule("R3", <<"P1", "G3">>, "P3", 900000) >>

\* a dependency cycle: RA's consequent is RB's antecedent and vice versa
CycleRules ==
    << Rule("RA", <<"G1">>, "G2", 900000),
       Rule("RB", <<"G2">>, "G1", 900000) >>

\* malformed and out-of-range rules: no antecedents, no consequent, a
\* negative CF, a CF above 1, no CF key
OddRules ==
    << Rule("R4", <<>>, "P1", 800000),
       Rule("R5", <<"G1">>, NoThen, 800000),
       Rule("R6", <<"G1">>, "P2", -500000),
       Rule("R7", <<"G3">>, "P2", 1500000),
       Rule("R8", <<"G1", "G3">>, "P3", NoCF) >>

RuleBases == {TestRules, ChainRules, CycleRules, OddRules}

\* the facts of TestInferenceEngine.setup_method
TestFacts == ("G1" :> 1000000) @@ ("G2" :> 900000) @@ ("G3" :> 800000)

\* facts of test_backward_chaining_failure
OnlyG1 == ("G1" :> 1000000)

\* initial CFs outside [0,1]
OutOfRangeFacts == ("G1" :> 1500000) @@ ("G2" :> -200000) @@ ("G3" :> 800000)

\* a fact that is present with CF 0
ZeroFacts == ("G1" :> 0) @@ ("G2" :> 500000) @@ ("G3" :> 1000000)

InitialFactSets == {TestFacts, OnlyG1, OutOfRangeFacts, ZeroFacts}

\* the limit argument: None or a number
NoLimit == -1

Limits == {NoLimit} \cup (0..MaxLimit)

\* ------------------------------------------------------------------ state

VARIABLES
    explanation,     \* InferenceEngine.explanation: the trace recorder, or None
    working_memory,  \* InferenceEngine.working_memory: the fact store, or None
    rules,           \* argument of the running forward_chaining call
    max_steps,       \* _inference_loop: max_steps
    used_rules,      \* _inference_loop: used_rules
    fired,           \* _inference_loop: fired
    step_no,         \* _inference_loop: step_no
    idx,             \* _inference_loop: position of the for loop in rules
    steps,           \* steps the running forward_chaining call has taken
    pc,              \* "idle", "loop" (inside _inference_loop) or "done"
    result,          \* what the last forward_chaining call returned
    call,            \* the arguments of the last forward_chaining call
    calls,           \* forward_chaining calls made on this engine
    last,            \* what the last _fire_rule call did
    wm,              \* a WorkingMemory object of core/working_memory.py
    combine_call,    \* the last _combine_cf call: its arguments and outcome
    raised,          \* the exception the last WorkingMemory call raised
    bc,              \* the last backward_chaining call: arguments and result
    threshold,       \* InferenceEngine.threshold
    diag,            \* the running or last diagnose call: arguments and result
    sug,             \* the last get_suggestions call on the current recorder
    runs,            \* diagnose calls of concurrent threads: their local variables
    session          \* st.session_state of one browser session of the Diagnosis page

vars == << explanation, working_memory, rules, max_steps, used_rules, fired,
           step_no, idx, steps, pc, result, call, calls, last, wm, combine_call,
           raised, bc, threshold, diag, sug, runs, session >>

engineVars == << explanation, working_memory, rules, max_steps, used_rules,
                 fired, step_no, idx, steps, pc, result, call, calls, last >>

loopVars == << rules, max_steps, used_rules, fired, step_no, idx, steps, pc,
              result, call, calls, last >>

wmVars == << wm, combine_call, raised >>

bcVars == << bc >>

diagVars == << threshold, diag >>

sugVars == << sug >>

runVars == << runs >>

pageVars == << session >>

\* ------------------------------------------------- the fact store (engine)

\* WorkingMemory.add_initial_facts: every initial fact is written with its CF
\* clamped to [0,1]
add_initial_facts(init) == [f \in DOMAIN init |-> Clamp(init[f])]

\* WorkingMemory.get_fact(a) or 0.0
get_fact(facts, a) == IF a \in DOMAIN facts THEN facts[a] ELSE 0

\* WorkingMemory.has_all_facts
has_all_facts(facts, ids) == \A i \in 1..Len(ids) : ids[i] \in DOMAIN facts

\* WorkingMemory.get_facts_set
get_facts_set(facts) == DOMAIN facts

\* the CF add_fact stores: the accumulation law old + cf * (1 - old) on the
\* clamped evidence, clamped to [0,1]; old is 0 for an absent fact
combined_cf(facts, id, cf) ==
    LET old == get_fact(facts, id)
    IN  Clamp(old + Mul(Clamp(cf), Scale - old))

\* WorkingMemory.add_fact: the fact store after the write
add_fact(facts, id, cf) ==
    [f \in DOMAIN facts \cup {id} |->
        IF f = id THEN combined_cf(facts, id, cf) ELSE facts[f]]

\* WorkingMemory.add_fact: the delta it returns
add_fact_delta(facts, id, cf) == combined_cf(facts, id, cf) - get_fact(facts, id)

\* ------------------------------------------------------ InferenceEngine

\* can_fire_rule testing the first antecedent only
can_fire_rule_first_only(facts, rule) ==
    /\ Len(rule.If) > 0
    /\ rule.If[1] \in DOMAIN facts

\* _can_fire_rule
can_fire_rule(facts, rule) ==
    /\ Len(rule.If) > 0
    /\ has_all_facts(facts, rule.If)

RECURSIVE SumSeq(_)
SumSeq(s) == IF Len(s) = 0 THEN 0 ELSE s[1] + SumSeq(Tail(s))

\* ant_cf with the antecedents averaged instead of taking their minimum
ant_cf_average(facts, rule) ==
    IF Len(rule.If) = 0 THEN 0
    ELSE SumSeq([i \in 1..Len(rule.If) |-> get_fact(facts, rule.If[i])])
            \div Len(rule.If)

\* _fire_rule: ant_cf = min(ant_cfs) if ant_cfs else 0.0
ant_cf(facts, rule) ==
    IF Len(rule.If) = 0 THEN 0
    ELSE MinSeq([i \in 1..Len(rule.If) |-> get_fact(facts, rule.If[i])])

\* _fire_rule: rule_cf = float(rule.get("CF", 1.0))
rule_cf(rule) == IF rule.CF = NoCF THEN Scale ELSE rule.CF

\* _fire_rule: proposed_cf = min(1.0, ant_cf * rule_cf)
proposed_cf(facts, rule) == Min2(Scale, Mul(ant_cf(facts, rule), rule_cf(rule)))

\* fire_write with the consequent's CF overwritten by the proposed CF
fire_write_overwrite(facts, rule) ==
    [f \in DOMAIN facts \cup {rule.Then} |->
        IF f = rule.Then THEN Clamp(proposed_cf(facts, rule)) ELSE facts[f]]

\* _fire_rule: the write to working memory (add_fact of the proposed CF)
fire_write(facts, rule) == add_fact(facts, rule.Then, proposed_cf(facts, rule))

\* _fire_rule: the delta that decides whether the firing is recorded
fire_delta(facts, rule) == add_fact_delta(facts, rule.Then, proposed_cf(facts, rule))

\* fire_returns_none without the test of delta against 1e-6
fire_returns_none_no_eps(facts, rule) == rule.Then = NoThen

\* _fire_rule returns None: no consequent, or no significant change
fire_returns_none(facts, rule) ==
    \/ rule.Then = NoThen
    \/ fire_delta(facts, rule) <= Eps

\* the ReasoningStep _fire_rule builds; facts is the store before the write
reasoning_step(facts, rule, step) ==
    LET after == fire_write(facts, rule)
    IN  [ step         |-> step,
          rule         |-> rule.id,
          matched_if   |-> rule.If,
          derived      |-> rule.Then,
          cf_before    |-> get_fact(facts, rule.Then),
          delta_cf     |-> fire_delta(facts, rule),
          cf_after     |-> after[rule.Then],
          facts_before |-> get_facts_set(after) \ {rule.Then},
          facts_after  |-> get_facts_set(after) ]

\* ReasoningStep.to_row: the CF columns are rounded to three decimals
to_row(s) ==
    [s EXCEPT !.cf_before = Round3(s.cf_before),
              !.delta_cf  = Round3(s.delta_cf),
              !.cf_after  = Round3(s.cf_after)]

\* ExplanationFacility.get_trace_formatted
get_trace_formatted(trace) == [i \in 1..Len(trace) |-> to_row(trace[i])]

\* ExplanationFacility.add_trace_step, when the engine has a recorder
add_trace_step(expl, step) ==
    IF expl.present THEN [expl EXCEPT !.trace = Append(@, step)] ELSE expl

\* _inference_loop: max_steps
initial_max_steps(rb, lim) ==
    IF lim # NoLimit THEN lim ELSE Max2(DefaultMaxSteps, Len(rb) * StepsPerRule)

\* forward_chaining: the trace of the returned dict
result_trace(expl) ==
    IF expl.present THEN get_trace_formatted(expl.trace) ELSE << >>

NoExplanation == [present |-> FALSE, trace |-> << >>]

NoWorkingMemory == [present |-> FALSE, facts_cf |-> << >>]

NoResult == [returned |-> FALSE]

NoCall == [made |-> FALSE]

NoFire == [kind |-> "none"]

NoCombine == [called |-> FALSE]

NoBackward == [called |-> FALSE]

NoDiagnosis == [called |-> FALSE, pending |-> FALSE]

NoSuggestions == [called |-> FALSE]

\* the threads that share the engine get_engine caches: one per browser
\* session
Threads == {"A", "B"}

NoRuns == [t \in Threads |-> [pc |-> "idle"]]

NoSession == [open |-> FALSE]

\* the default of the threshold argument of InferenceEngine.__init__
DefaultThreshold == 600000

\* InferenceEngine.__init__ apart from the threshold, and a fresh
\* WorkingMemory object
InitFields ==
    /\ explanation = NoExplanation
    /\ working_memory = NoWorkingMemory
    /\ rules = << >>
    /\ max_steps = 0
    /\ used_rules = << >>
    /\ fired = FALSE
    /\ step_no = 0
    /\ idx = 1
    /\ steps = 0
    /\ pc = "idle"
    /\ result = NoResult
    /\ call = NoCall
    /\ calls = 0
    /\ last = NoFire
    /\ wm = [facts |-> << >>, inferred_diseases |-> << >>,
             fired_rules |-> << >>, user_symptoms_count |-> 0,
             inference_count |-> 0]
    /\ combine_call = NoCombine
    /\ raised = "none"
    /\ bc = NoBackward
    /\ diag = NoDiagnosis
    /\ sug = NoSuggestions
    /\ runs = NoRuns
    /\ session = NoSession

\* InferenceEngine(): the engine constructed with the default threshold
Init ==
    /\ InitFields
    /\ threshold = DefaultThreshold

\* forward_chaining up to the first test of the while loop: what it does to
\* the engine
forward_chaining_enter(rb, init, lim, kb) ==
    /\ working_memory' = [present |-> TRUE, facts_cf |-> add_initial_facts(init)]
    /\ explanation' = IF kb THEN [present |-> TRUE, trace |-> << >>]
                      ELSE explanation
    /\ sug' = IF kb THEN NoSuggestions ELSE sug
    /\ rules' = rb
    /\ max_steps' = initial_max_steps(rb, lim)
    /\ used_rules' = << >>
    /\ fired' = TRUE
    /\ step_no' = 0
    /\ idx' = Len(rb) + 1
    /\ steps' = 0
    /\ pc' = "loop"
    /\ result' = NoResult
    /\ call' = [made |-> TRUE, rules |-> rb, initial_facts_cf |-> init,
                limit |-> lim, kb |-> kb]
    /\ calls' = calls + 1
    /\ last' = NoFire

\* a forward_chaining call made on the engine
ForwardChaining(rb, init, lim, kb) ==
    /\ pc # "loop"
    /\ calls < MaxCalls
    /\ forward_chaining_enter(rb, init, lim, kb)
    /\ UNCHANGED << wmVars, bcVars, diagVars, runVars, pageVars >>

\* the while test without "fired and"
loop_continues_no_fired == step_no < max_steps

\* while fired and step_no < max_steps
loop_continues == fired /\ step_no < max_steps

\* the while test succeeds: fired = False, the for loop starts over
NextSweep ==
    /\ pc = "loop"
    /\ idx > Len(rules)
    /\ loop_continues
    /\ fired' = FALSE
    /\ idx' = 1
    /\ steps' = steps + 1
    /\ UNCHANGED << explanation, working_memory, rules, max_steps, used_rules,
                    step_no, pc, result, call, calls, last >>
    /\ UNCHANGED << wmVars, bcVars, diagVars, sugVars, runVars, pageVars >>

\* for rid, rule: _can_fire_rule(rule) is false, continue
SkipRule ==
    /\ pc = "loop"
    /\ steps' = steps + 1
    /\ idx <= Len(rules)
    /\ ~can_fire_rule(working_memory.facts_cf, rules[idx])
    /\ idx' = idx + 1
    /\ last' = [kind |-> "skipped", rule |-> rules[idx].id, idx |-> idx]
    /\ UNCHANGED << explanation, working_memory, rules, max_steps, used_rules,
                    fired, step_no, pc, result, call, calls >>
    /\ UNCHANGED << wmVars, bcVars, diagVars, sugVars, runVars, pageVars >>

\* for rid, rule: _fire_rule returns None
FireRuleNone ==
    /\ pc = "loop"
    /\ steps' = steps + 1
    /\ idx <= Len(rules)
    /\ LET facts == working_memory.facts_cf
           rule  == rules[idx]
       IN  /\ can_fire_rule(facts, rule)
           /\ fire_returns_none(facts, rule)
           /\ working_memory' =
                IF rule.Then = NoThen THEN working_memory
                ELSE [working_memory EXCEPT !.facts_cf = fire_write(facts, rule)]
           /\ last' = [kind |-> "insignificant", rule |-> rule.id, idx |-> idx,
                       facts_before |-> facts]
    /\ idx' = idx + 1
    /\ UNCHANGED << explanation, rules, max_steps, used_rules, fired, step_no,
                    pc, result, call, calls >>
    /\ UNCHANGED << wmVars, bcVars, diagVars, sugVars, runVars, pageVars >>

\* for rid, rule: _fire_rule returns the firing; it is counted and recorded
FireRule ==
    /\ pc = "loop"
    /\ steps' = steps + 1
    /\ idx <= Len(rules)
    /\ LET facts == working_memory.facts_cf
           rule  == rules[idx]
       IN  /\ can_fire_rule(facts, rule)
           /\ ~fire_returns_none(facts, rule)
           /\ working_memory' =
                [working_memory EXCEPT !.facts_cf = fire_write(facts, rule)]
           /\ explanation' =
                add_trace_step(explanation, reasoning_step(facts, rule, step_no + 1))
           /\ used_rules' = Append(used_rules, rule.id)
           /\ last' = [kind |-> "fired", rule |-> rule.id, idx |-> idx,
                       facts_before |-> facts]
    /\ fired' = TRUE
    /\ step_no' = step_no + 1
    /\ idx' = idx + 1
    /\ UNCHANGED << rules, max_steps, pc, result, call, calls >>
    /\ UNCHANGED << wmVars, bcVars, diagVars, sugVars, runVars, pageVars >>

\* the while test fails: _inference_loop returns, forward_chaining builds
\* its result
Return ==
    /\ pc = "loop"
    /\ steps' = steps + 1
    /\ idx > Len(rules)
    /\ ~loop_continues
    /\ result' = [returned    |-> TRUE,
                  facts_cf    |-> working_memory.facts_cf,
                  conclusions |-> working_memory.facts_cf,
                  used_rules  |-> used_rules,
                  trace       |-> result_trace(explanation)]
    /\ pc' = "done"
    /\ UNCHANGED << explanation, working_memory, rules, max_steps, used_rules,
                    fired, step_no, idx, call, calls, last >>
    /\ UNCHANGED << wmVars, bcVars, diagVars, sugVars, runVars, pageVars >>

Next ==
    \/ \E rb \in RuleBases, init \in InitialFactSets, lim \in Limits,
          kb \in BOOLEAN : ForwardChaining(rb, init, lim, kb)
    \/ NextSweep
    \/ SkipRule
    \/ FireRuleNone
    \/ FireRule
    \/ Return

Spec == Init /\ [][Next]_vars

\* the steps of a running forward_chaining call
RunStep == NextSweep \/ SkipRule \/ FireRuleNone \/ FireRule \/ Return

RECURSIVE inference_sweep(_, _)
\* _inference_loop: the for loop over rules.items(), from the rule at s.idx
\* on
inference_sweep(rb, s) ==
    IF s.idx > Len(rb) THEN s
    ELSE LET rule == rb[s.idx]
         IN  IF ~can_fire_rule(s.facts_cf, rule)
             THEN inference_sweep(rb, [s EXCEPT !.idx = @ + 1])
             ELSE IF fire_returns_none(s.facts_cf, rule)
             THEN inference_sweep(rb,
                      [s EXCEPT !.idx = @ + 1,
                                !.facts_cf = IF rule.Then = NoThen THEN @
                                             ELSE fire_write(@, rule)])
             ELSE inference_sweep(rb,
                      [s EXCEPT !.idx = @ + 1,
                                !.facts_cf = fire_write(@, rule),
                                !.explanation =
                                    add_trace_step(@, reasoning_step(s.facts_cf,
                                                       rule, s.step_no + 1)),
                                !.used_rules = Append(@, rule.id),
                                !.fired = TRUE,
                                !.step_no = @ + 1])

RECURSIVE inference_loop(_, _)
\* _inference_loop run from the state s, which stands at the end of a sweep,
\* to its return: while fired and step_no < max_steps, one more sweep
inference_loop(rb, s) ==
    IF s.fired /\ s.step_no < s.max_steps
    THEN inference_loop(rb, inference_sweep(rb, [s EXCEPT !.fired = FALSE,
                                                          !.idx = 1]))
    ELSE s

\* forward_chaining called on an engine whose recorder is expl, run to its
\* return with nothing else touching the engine: the dict it returns
forward_chaining_from(expl, rb, init, lim, kb) ==
    LET s == inference_loop(rb,
                 [facts_cf    |-> add_initial_facts(init),
                  explanation |-> IF kb THEN [present |-> TRUE, trace |-> << >>]
                                  ELSE expl,
                  used_rules  |-> << >>,
                  fired       |-> TRUE,
                  step_no     |-> 0,
                  idx         |-> Len(rb) + 1,
                  max_steps   |-> initial_max_steps(rb, lim)])
    IN  [returned    |-> TRUE,
         facts_cf    |-> s.facts_cf,
         conclusions |-> s.facts_cf,
         used_rules  |-> s.used_rules,
         trace       |-> result_trace(s.explanation)]

\* forward_chaining called on a newly constructed engine
forward_chaining(rb, init, lim, kb) ==
    forward_chaining_from(NoExplanation, rb, init, lim, kb)

\* ------------------------------------- WorkingMemory (core/working_memory.py)

\* CFs handed to add_symptom and add_inferred_disease, in and out of [0,1]
CFInputs == {-1000000, -500000, 500000, 1000000, 1500000}

SymptomIds == {"G1", "G2"}

DiseaseIds == {"P1"}

RuleIds == {"R1", "R2"}

\* WorkingMemory._combine_cf: the value it returns, or ok = FALSE when the
\* division raises ZeroDivisionError
combine_cf(cf1, cf2) ==
    IF cf1 > 0 /\ cf2 > 0
    THEN [ok |-> TRUE, value |-> cf1 + Mul(cf2, Scale - cf1)]
    ELSE IF cf1 < 0 /\ cf2 < 0
    THEN [ok |-> TRUE, value |-> cf1 + Mul(cf2, Scale + cf1)]
    ELSE LET den == Scale - Min2(Abs(cf1), Abs(cf2))
         IN  IF den = 0 THEN [ok |-> FALSE, value |-> 0]
             ELSE [ok |-> TRUE, value |-> Div(cf1 + cf2, den)]

\* writes made to the WorkingMemory object so far, as its metadata counts them
wm_ops == wm.user_symptoms_count + wm.inference_count

\* the CF add_symptom stores for the symptom
symptom_cf_written(facts, symptom_id, cf) == cf

\* WorkingMemory.add_symptom
AddSymptom(symptom_id, cf) ==
    /\ wm_ops < MaxOps
    /\ wm' = [wm EXCEPT
                !.facts = [f \in DOMAIN wm.facts \cup {symptom_id} |->
                             IF f = symptom_id
                             THEN symptom_cf_written(wm.facts, symptom_id, cf)
                             ELSE wm.facts[f]],
                !.user_symptoms_count = @ + 1]
    /\ raised' = "none"
    /\ UNCHANGED combine_call
    /\ UNCHANGED << engineVars, bcVars, diagVars, sugVars, runVars, pageVars >>

\* WorkingMemory.add_inferred_disease
AddInferredDisease(disease_id, cf) ==
    /\ wm_ops < MaxOps
    /\ IF disease_id \in DOMAIN wm.inferred_diseases
       THEN LET old_cf == wm.inferred_diseases[disease_id]
                c      == combine_cf(old_cf, cf)
            IN  /\ combine_call' = [called |-> TRUE, cf1 |-> old_cf, cf2 |-> cf,
                                    ok |-> c.ok, value |-> c.value]
                /\ IF c.ok
                   THEN /\ wm' = [wm EXCEPT
                                    !.inferred_diseases[disease_id] = c.value,
                                    !.inference_count = @ + 1]
                        /\ raised' = "none"
                   ELSE /\ wm' = wm
                        /\ raised' = "ZeroDivisionError"
       ELSE /\ wm' = [wm EXCEPT
                        !.inferred_diseases =
                            [d \in DOMAIN wm.inferred_diseases \cup {disease_id} |->
                                IF d = disease_id THEN cf
                                ELSE wm.inferred_diseases[d]],
                        !.inference_count = @ + 1]
            /\ raised' = "none"
            /\ UNCHANGED combine_call
    /\ UNCHANGED << engineVars, bcVars, diagVars, sugVars, runVars, pageVars >>

\* WorkingMemory.mark_rule_fired
MarkRuleFired(rule_id) ==
    /\ wm' = [wm EXCEPT !.fired_rules =
                IF rule_id \in SeqToSet(@) THEN @ ELSE Append(@, rule_id)]
    /\ raised' = "none"
    /\ UNCHANGED combine_call
    /\ UNCHANGED << engineVars, bcVars, diagVars, sugVars, runVars, pageVars >>

\* WorkingMemory.clear
Clear ==
    /\ wm' = [facts |-> << >>, inferred_diseases |-> << >>,
              fired_rules |-> << >>, user_symptoms_count |-> 0,
              inference_count |-> 0]
    /\ raised' = "none"
    /\ UNCHANGED combine_call
    /\ UNCHANGED << engineVars, bcVars, diagVars, sugVars, runVars, pageVars >>

NextWM ==
    \/ \E s \in SymptomIds, cf \in CFInputs : AddSymptom(s, cf)
    \/ \E d \in DiseaseIds, cf \in CFInputs : AddInferredDisease(d, cf)
    \/ \E r \in RuleIds : MarkRuleFired(r)
    \/ Clear

SpecWM == Init /\ [][NextWM]_vars

\* ------------------------------------------- backward_chaining (engine)

\* nested backward_chaining calls after which the interpreter raises
\* RecursionError (sys.getrecursionlimit(), scaled down)
MaxDepth == 6

\* rule bases in which a goal has several candidate rules: RX is listed
\* first and yields the lower CF
AltRules ==
    << Rule("RX", <<"G1">>, "P1", 500000),
       Rule("RY", <<"G2", "G3">>, "P1", 900000),
       Rule("RW", <<"P1", "G3">>, "P3", 900000) >>

\* RQ proves P2 and then fails on G9; RS needs P2 again
SiblingRules ==
    << Rule("RQ", <<"P2", "G9">>, "P1", 800000),
       Rule("RS", <<"P2">>, "P1", 700000),
       Rule("RT", <<"G1">>, "P2", 900000),
       Rule("RU", <<"P2", "P1">>, "P3", 1000000) >>

\* a cycle through derived facts only: P1 needs P2, P2 needs P1
DerivedCycleRules ==
    << Rule("RC", <<"P2", "G1">>, "P1", 900000),
       Rule("RD", <<"P1">>, "P2", 900000),
       Rule("RE", <<"G1", "G3">>, "P2", 600000) >>

BackwardRuleBases ==
    {TestRules, CycleRules, OddRules, AltRules, SiblingRules, DerivedCycleRules}

\* an empty facts_cf dict
NoFacts == [f \in {} |-> 0]

BackwardFactSets == {TestFacts, OnlyG1, OutOfRangeFacts, ZeroFacts, NoFacts}

Goals == {"G1", "G2", "P1", "P2", "P3", "P9"}

\* the unsuccessful result dict; depth is the deepest nested call reached and
\* visited the callee's visited set when it returned
bc_failure(visited, depth) ==
    [success |-> FALSE, cf |-> 0, used_rules |-> << >>, trace |-> << >>,
     raised |-> FALSE, depth |-> depth, visited |-> visited]

\* the base case: goal in facts_cf and facts_cf[goal] > 0.0
known_fact(facts_cf, goal) == goal \in DOMAIN facts_cf /\ facts_cf[goal] > 0

\* the cycle guard without the test of the visited set
on_branch_never(goal, visited) == FALSE

\* the cycle guard: goal in visited
on_branch(goal, visited) == goal \in visited

\* a candidate filter that accepts every rule
concludes_any(rule, goal) == TRUE

\* the candidate filter: rule.get("THEN") == goal
concludes(rule, goal) == rule.Then # NoThen /\ rule.Then = goal

\* the caller's visited set handed to every sibling without a copy
branch_visited_shared(visited, sub_visited) == visited \cup sub_visited

\* the caller's visited set after a recursive call that was handed
\* visited.copy(): unchanged
branch_visited(visited, sub_visited) == visited

\* the update test of the first candidate that succeeds, not the best
is_better_first_match(goal_cf, best_cf) == goal_cf > 0 /\ best_cf = 0

\* if goal_cf > best_cf
is_better(goal_cf, best_cf) == goal_cf > best_cf

\* the rule list with the concluding rule put first
all_used_rules_root_first(sub_used_rules, rule_id) == << rule_id >> \o sub_used_rules

\* all_used_rules = sub_used_rules + [rule_id]
all_used_rules(sub_used_rules, rule_id) == Append(sub_used_rules, rule_id)

\* goal_cf = min(1.0, max(0.0, ant_cf * rule_cf))
goal_cf(ant_cfs, rule) ==
    Clamp(Mul(IF Len(ant_cfs) = 0 THEN 0 ELSE MinSeq(ant_cfs), rule_cf(rule)))

\* the row of the ReasoningStep backward_chaining builds for the goal
backward_trace_step(facts_cf, goal, rule, cf, sub_traces) ==
    to_row([ step         |-> Len(sub_traces) + 1,
             rule         |-> rule.id,
             matched_if   |-> rule.If,
             derived      |-> goal,
             cf_before    |-> 0,
             delta_cf     |-> cf,
             cf_after     |-> cf,
             facts_before |-> DOMAIN facts_cf,
             facts_after  |-> DOMAIN facts_cf \cup {goal} ])

RECURSIVE candidate_rules(_, _)
\* candidate_rules: the rules with THEN == goal, in the rule base's order
candidate_rules(rb, goal) ==
    IF Len(rb) = 0 THEN << >>
    ELSE IF concludes(Head(rb), goal)
         THEN << Head(rb) >> \o candidate_rules(Tail(rb), goal)
         ELSE candidate_rules(Tail(rb), goal)

RECURSIVE backward_chaining(_, _, _, _, _)
RECURSIVE prove_antecedents(_, _, _, _, _, _)
RECURSIVE try_candidates(_, _, _, _, _, _, _)

\* for antecedent in antecedents: the loop from its j-th element on; acc holds
\* ant_cfs, sub_used_rules, sub_traces and all_proved; d is the depth of the
\* calling frame
prove_antecedents(rb, facts_cf, antecedents, j, d, acc) ==
    IF j > Len(antecedents) \/ ~acc.all_proved \/ acc.raised THEN acc
    ELSE LET antecedent == antecedents[j]
         IN  IF known_fact(facts_cf, antecedent)
             THEN prove_antecedents(rb, facts_cf, antecedents, j + 1, d,
                      [acc EXCEPT !.ant_cfs = Append(@, facts_cf[antecedent])])
             ELSE LET sub_result ==
                          backward_chaining(rb, facts_cf, antecedent,
                                            acc.visited, d + 1)
                      acc1 == [acc EXCEPT
                                 !.visited = branch_visited(@, sub_result.visited),
                                 !.depth   = Max2(@, sub_result.depth)]
                  IN  IF sub_result.raised THEN [acc1 EXCEPT !.raised = TRUE]
                      ELSE IF sub_result.success
                      THEN prove_antecedents(rb, facts_cf, antecedents, j + 1, d,
                               [acc1 EXCEPT
                                  !.ant_cfs = Append(@, sub_result.cf),
                                  !.sub_used_rules = @ \o sub_result.used_rules,
                                  !.sub_traces = @ \o sub_result.trace])
                      ELSE [acc1 EXCEPT !.all_proved = FALSE]

\* for rule_id, rule in candidate_rules: the loop from its k-th element on; st
\* holds best_result and best_cf
try_candidates(rb, facts_cf, goal, candidates, k, d, st) ==
    IF k > Len(candidates) \/ st.raised THEN st
    ELSE LET rule == candidates[k]
         IN  IF Len(rule.If) = 0
             THEN try_candidates(rb, facts_cf, goal, candidates, k + 1, d, st)
             ELSE LET acc == prove_antecedents(rb, facts_cf, rule.If, 1, d,
                                 [ant_cfs |-> << >>, sub_used_rules |-> << >>,
                                  sub_traces |-> << >>, all_proved |-> TRUE,
                                  raised |-> FALSE, depth |-> st.depth,
                                  visited |-> st.visited])
                      st1 == [st EXCEPT !.depth = acc.depth,
                                        !.visited = acc.visited]
                      cf  == goal_cf(acc.ant_cfs, rule)
                  IN  IF acc.raised THEN [st1 EXCEPT !.raised = TRUE]
                      ELSE IF ~acc.all_proved
                      THEN try_candidates(rb, facts_cf, goal, candidates, k + 1,
                                          d, st1)
                      ELSE IF is_better(cf, st.best_cf)
                      THEN try_candidates(rb, facts_cf, goal, candidates, k + 1, d,
                               [st1 EXCEPT
                                  !.best_cf = cf,
                                  !.found = TRUE,
                                  !.used_rules =
                                      all_used_rules(acc.sub_used_rules, rule.id),
                                  !.trace = Append(acc.sub_traces,
                                      backward_trace_step(facts_cf, goal, rule, cf,
                                                          acc.sub_traces))])
                      ELSE try_candidates(rb, facts_cf, goal, candidates, k + 1,
                                          d, st1)

\* InferenceEngine.backward_chaining as the frame at depth d; its result dict
\* (success, cf, used_rules, trace), raised when the recursion limit is hit
backward_chaining(rb, facts_cf, goal, _visited, d) ==
    IF d > MaxDepth
    THEN [bc_failure(_visited, d) EXCEPT !.raised = TRUE]
    ELSE IF known_fact(facts_cf, goal)
    THEN [success |-> TRUE, cf |-> Clamp(facts_cf[goal]), used_rules |-> << >>,
          trace |-> << >>, raised |-> FALSE, depth |-> d, visited |-> _visited]
    ELSE IF on_branch(goal, _visited)
    THEN bc_failure(_visited, d)
    ELSE LET visited    == _visited \cup {goal}
             candidates == candidate_rules(rb, goal)
         IN  IF Len(candidates) = 0 THEN bc_failure(visited, d)
             ELSE LET st == try_candidates(rb, facts_cf, goal, candidates, 1, d,
                                [found |-> FALSE, best_cf |-> 0,
                                 used_rules |-> << >>, trace |-> << >>,
                                 raised |-> FALSE, depth |-> d,
                                 visited |-> visited])
                  IN  IF st.raised
                      THEN [bc_failure(st.visited, st.depth) EXCEPT !.raised = TRUE]
                      ELSE IF st.found
                      THEN [success |-> TRUE, cf |-> st.best_cf,
                            used_rules |-> st.used_rules, trace |-> st.trace,
                            raised |-> FALSE, depth |-> st.depth,
                            visited |-> st.visited]
                      ELSE bc_failure(st.visited, st.depth)

\* a backward_chaining call made on the engine (no _visited argument)
BackwardChaining(rb, facts_cf, goal, kb) ==
    /\ pc # "loop"
    /\ bc' = [called |-> TRUE, rules |-> rb, facts_cf |-> facts_cf,
              goal |-> goal, kb |-> kb,
              result |-> backward_chaining(rb, facts_cf, goal, {}, 1)]
    /\ explanation' =
         IF kb /\ ~explanation.present /\ ~known_fact(facts_cf, goal)
         THEN [present |-> TRUE, trace |-> << >>]
         ELSE explanation
    /\ UNCHANGED << working_memory, rules, max_steps, used_rules, fired, step_no,
                    idx, steps, pc, result, call, calls, last >>
    /\ UNCHANGED << wmVars, diagVars, sugVars, runVars, pageVars >>

NextBackward ==
    \E rb \in BackwardRuleBases, facts_cf \in BackwardFactSets, goal \in Goals,
       kb \in BOOLEAN : BackwardChaining(rb, facts_cf, goal, kb)

SpecBackward == Init /\ [][NextBackward]_vars

\* ---------------------------------------------------- diagnose (engine)

\* a symptom without a weight key, or a symptom id the kb does not know
NoWeight == -1

\* the conclusion None
NoDisease == ""

\* a knowledge base: rules in iteration order, symptom weights, disease ids
\* in iteration order
KB(name, rb, weights, diseases) ==
    [name |-> name, rules |-> rb, symptoms |-> weights, diseases |-> diseases]

\* the MockKB of test_diagnose_pipeline
MockKB ==
    KB("MockKB",
       << Rule("R1", <<"S1", "S2">>, "D1", 800000) >>,
       ("S1" :> 1000000) @@ ("S2" :> 900000),
       << "D1" >>)

\* two diseases derived with the same CF, the rule of the second in the
\* catalogue listed first; H1 is derived but is not a disease; S1 has no
\* weight key
TieKB ==
    KB("TieKB",
       << Rule("RD2", <<"S1">>, "D2", 1000000),
          Rule("RD1", <<"S1">>, "D1", 1000000),
          Rule("RH", <<"S2">>, "H1", 1000000) >>,
       ("S1" :> NoWeight) @@ ("S2" :> 1000000),
       << "D1", "D2" >>)

\* a disease whose only rule has a very low CF, and a second one that needs
\* a derived fact
WeakKB ==
    KB("WeakKB",
       << Rule("RL", <<"S1">>, "D1", 10000),
          Rule("RM", <<"D1", "S2">>, "D2", 500000) >>,
       ("S1" :> 1000000) @@ ("S2" :> 900000),
       << "D2", "D1" >>)

\* two rules that conclude the same disease and share an antecedent, the one
\* with more antecedents listed first; RO3 concludes D9, which the disease
\* catalogue does not hold; RO4 concludes a second disease of the catalogue;
\* no symptom list selects RO5's antecedent
OverlapKB ==
    KB("OverlapKB",
       << Rule("RO2", <<"S1", "S3", "S4">>, "D1", 900000),
          Rule("RO1", <<"S1", "S2">>, "D1", 800000),
          Rule("RO3", <<"S2", "S5">>, "D9", 700000),
          Rule("RO4", <<"S4", "S2">>, "D2", 600000),
          Rule("RO5", <<"S5">>, "D2", 600000) >>,
       ("S1" :> 1000000) @@ ("S2" :> 900000) @@ ("S3" :> 800000)
          @@ ("S4" :> 1000000),
       << "D1", "D2" >>)

KnowledgeBases == {MockKB, TieKB, WeakKB, OverlapKB}

\* the symptom_ids argument of diagnose
SymptomLists ==
    { << "S1", "S2" >>, << "S1" >>, << "S2" >>, << "S3" >>, << "S2", "S3" >>,
      << >> }

\* the user_cf argument of diagnose, within [0,1]
UserCFs == {0, 500000, 900000, 1000000}

\* the threshold argument of InferenceEngine.__init__
Thresholds == {0, 500000, DefaultThreshold, 1000000}

\* diagnose: user_cf or 1.0
user_cf_or_default(user_cf) == IF user_cf = 0 THEN Scale ELSE user_cf

\* diagnose: weight = float(s_map.get("weight", 1.0))
symptom_weight(kb, sid) ==
    IF sid \in DOMAIN kb.symptoms /\ kb.symptoms[sid] # NoWeight
    THEN kb.symptoms[sid] ELSE Scale

\* diagnose: initial_facts_cf
initial_facts_cf(symptom_ids, user_cf, kb) ==
    LET user_cf_clamped == Clamp(user_cf_or_default(user_cf))
    IN  [sid \in SeqToSet(symptom_ids) |->
            Clamp(Mul(user_cf_clamped, symptom_weight(kb, sid)))]

\* the disease test that lets a later disease with the same CF win
disease_is_better_or_equal(cf, best_cf) == cf >= best_cf

\* diagnose: if cf > best_cf
disease_is_better(cf, best_cf) == cf > best_cf

RECURSIVE best_disease(_, _, _, _)
\* diagnose: for disease_id in diseases.keys(), from the k-th disease on; best
\* holds best_disease_id and best_cf
best_disease(diseases, conclusions, k, best) ==
    IF k > Len(diseases) THEN best
    ELSE LET cf == get_fact(conclusions, diseases[k])
         IN  best_disease(diseases, conclusions, k + 1,
                 IF disease_is_better(cf, best.best_cf)
                 THEN [best_disease_id |-> diseases[k], best_cf |-> cf]
                 ELSE best)

\* 'percentage': matched / required * 100, for required > 0
percentage(matched_count, total_required) ==
    (matched_count * 100 * Scale) \div total_required

\* the partial-match test that also accepts a rule whose antecedents are
\* all selected
is_partial_match_or_full(matched, missing) == Cardinality(matched) > 0

\* get_suggestions: if len(matched) > 0 and len(missing) > 0
is_partial_match(matched, missing) ==
    Cardinality(matched) > 0 /\ Cardinality(missing) > 0

\* get_suggestions: the suggestion of one rule, made when some but not all of
\* its antecedents are selected
suggestion(rule, selected_set) ==
    LET required_set == SeqToSet(rule.If)
        matched      == selected_set \cap required_set
        missing      == required_set \ selected_set
    IN  [made               |-> /\ Len(rule.If) > 0
                                /\ rule.Then # NoThen
                                /\ is_partial_match(matched, missing),
         rule_id            |-> rule.id,
         disease_id         |-> rule.Then,
         matched_count      |-> Cardinality(matched),
         total_required     |-> Cardinality(required_set),
         percentage         |-> IF Len(rule.If) = 0 THEN 0
                                ELSE percentage(Cardinality(matched),
                                                Cardinality(required_set)),
         missing_symptom_ids |-> missing,
         current_symptoms   |-> matched]

\* the sort key compared the other way round (an ascending sort)
percentage_at_most(a, b) ==
    a.matched_count * b.total_required <= b.matched_count * a.total_required

\* percentage of a >= percentage of b: matched / required * 100, compared
\* without the division
percentage_at_least(a, b) ==
    a.matched_count * b.total_required >= b.matched_count * a.total_required

RECURSIVE insert_by_percentage(_, _)
\* x put into the list sorted by percentage, descending, after the entries
\* that are not below it (the sort is stable)
insert_by_percentage(sorted, x) ==
    IF Len(sorted) = 0 THEN << x >>
    ELSE IF percentage_at_least(Head(sorted), x)
         THEN << Head(sorted) >> \o insert_by_percentage(Tail(sorted), x)
         ELSE << x >> \o sorted

RECURSIVE sort_by_percentage(_, _)
\* suggestions.sort(key=percentage, reverse=True), from the k-th entry on
sort_by_percentage(unsorted, sorted) ==
    IF Len(unsorted) = 0 THEN sorted
    ELSE sort_by_percentage(Tail(unsorted),
                            insert_by_percentage(sorted, Head(unsorted)))

RECURSIVE collect_suggestions(_, _)
\* get_suggestions: the loop over the rules of the kb
collect_suggestions(rb, selected_set) ==
    IF Len(rb) = 0 THEN << >>
    ELSE LET s == suggestion(Head(rb), selected_set)
         IN  (IF s.made THEN << s >> ELSE << >>)
                \o collect_suggestions(Tail(rb), selected_set)

\* InferenceEngine.get_suggestions
get_suggestions(symptom_ids, kb) ==
    sort_by_percentage(collect_suggestions(kb.rules, SeqToSet(symptom_ids)), << >>)

RECURSIVE disease_candidates(_, _, _, _)
\* ExplanationFacility.get_suggestions: the loop over self.rules; acc is
\* disease_candidates, its diseases in the order they were inserted
disease_candidates(rb, diseases, selected_set, acc) ==
    IF Len(rb) = 0 THEN acc
    ELSE LET rule         == Head(rb)
             required_set == SeqToSet(rule.If)
             matched      == selected_set \cap required_set
             missing      == required_set \ selected_set
             contributes  == /\ Len(rule.If) > 0
                             /\ rule.Then # NoThen
                             /\ rule.Then \in SeqToSet(diseases)
                             /\ is_partial_match(matched, missing)
             known        == \E i \in 1..Len(acc) : acc[i].disease_id = rule.Then
             acc1         == IF known THEN acc
                             ELSE Append(acc, [disease_id        |-> rule.Then,
                                               matched_symptoms  |-> {},
                                               missing_symptoms  |-> {},
                                               required_symptoms |-> {}])
             acc2         == [i \in 1..Len(acc1) |->
                                IF acc1[i].disease_id # rule.Then THEN acc1[i]
                                ELSE [acc1[i] EXCEPT
                                        !.matched_symptoms  = @ \cup matched,
                                        !.missing_symptoms  = @ \cup missing,
                                        !.required_symptoms = @ \cup required_set]]
         IN  disease_candidates(Tail(rb), diseases, selected_set,
                                IF contributes THEN acc2 ELSE acc)

\* ExplanationFacility.get_suggestions: the entry appended for one disease
disease_suggestion(data) ==
    LET total_required == Cardinality(data.required_symptoms)
        matched_count  == Cardinality(data.matched_symptoms)
    IN  [disease_id          |-> data.disease_id,
         matched_count       |-> matched_count,
         total_required      |-> total_required,
         percentage          |-> IF total_required > 0
                                 THEN percentage(matched_count, total_required)
                                 ELSE 0,
         missing_symptom_ids |-> data.missing_symptoms]

\* ExplanationFacility.get_suggestions of the facility forward_chaining made
\* for kb
explanation_get_suggestions(symptom_ids, kb) ==
    LET candidates == disease_candidates(kb.rules, kb.diseases,
                                         SeqToSet(symptom_ids), << >>)
    IN  sort_by_percentage([i \in 1..Len(candidates) |->
                               disease_suggestion(candidates[i])], << >>)

\* the threshold test with > for >=
reaches_threshold_strictly(best, th) ==
    best.best_disease_id # NoDisease /\ best.best_cf > th

\* diagnose: if best_disease_id and best_cf >= self.threshold
reaches_threshold(best, th) ==
    best.best_disease_id # NoDisease /\ best.best_cf >= th

\* diagnose: the status when no disease reaches the threshold
failure_status(suggestions, fwd_used_rules) ==
    IF Len(suggestions) > 0 THEN "NEEDS_MORE_INFO"
    ELSE IF Len(fwd_used_rules) > 0 THEN "INCONCLUSIVE"
    ELSE "FAILED"

\* diagnose: the result dict built from the forward chaining result
diagnose_result(symptom_ids, kb, fwd_result, th) ==
    LET best == best_disease(kb.diseases, fwd_result.conclusions, 1,
                             [best_disease_id |-> NoDisease, best_cf |-> 0])
        common == [facts      |-> SeqToSet(symptom_ids),
                   trace      |-> fwd_result.trace,
                   used_rules |-> fwd_result.used_rules,
                   best       |-> best]
    IN  IF reaches_threshold(best, th)
        THEN common @@ [conclusion  |-> best.best_disease_id,
                        cf          |-> Round3(best.best_cf),
                        status      |-> "SUCCESS",
                        suggestions |-> << >>]
        ELSE LET suggestions == get_suggestions(symptom_ids, kb)
             IN  common @@ [conclusion  |-> NoDisease,
                            cf          |-> best.best_cf,
                            status      |-> failure_status(suggestions,
                                                fwd_result.used_rules),
                            suggestions |-> suggestions]

\* diagnose up to the first test of forward chaining's while loop
DiagnoseEnter(symptom_ids, user_cf, kb) ==
    /\ pc # "loop"
    /\ ~diag.pending
    /\ calls < MaxCalls
    /\ forward_chaining_enter(kb.rules, initial_facts_cf(symptom_ids, user_cf, kb),
                              NoLimit, TRUE)
    /\ diag' = [called |-> TRUE, pending |-> TRUE, symptom_ids |-> symptom_ids,
                user_cf |-> user_cf, kb |-> kb,
                initial_facts_cf |-> initial_facts_cf(symptom_ids, user_cf, kb)]
    /\ UNCHANGED << wmVars, bcVars, threshold, runVars, pageVars >>

\* diagnose from the return of forward_chaining to its own return
DiagnoseReturn ==
    /\ pc = "done"
    /\ diag.pending
    /\ diag' = [diag EXCEPT !.pending = FALSE] @@
               [result |-> diagnose_result(diag.symptom_ids, diag.kb, result,
                                           threshold)]
    /\ UNCHANGED << engineVars, wmVars, bcVars, threshold, sugVars, runVars, pageVars >>

\* a diagnose call has returned
diagnosed == diag.called /\ ~diag.pending

\* engine.explanation.get_suggestions(symptom_ids), asked of the facility the
\* last diagnose call left on the engine, for the symptoms that call was given
ExplanationGetSuggestions ==
    /\ diagnosed
    /\ explanation.present
    /\ sug' = [called |-> TRUE, symptom_ids |-> diag.symptom_ids, kb |-> diag.kb,
               result |-> explanation_get_suggestions(diag.symptom_ids, diag.kb)]
    /\ UNCHANGED << engineVars, wmVars, bcVars, diagVars, runVars, pageVars >>

NextDiagnose ==
    \/ \E symptom_ids \in SymptomLists, user_cf \in UserCFs,
          kb \in KnowledgeBases : DiagnoseEnter(symptom_ids, user_cf, kb)
    \/ ExplanationGetSuggestions
    \/ NextSweep
    \/ SkipRule
    \/ FireRuleNone
    \/ FireRule
    \/ Return
    \/ DiagnoseReturn

\* InferenceEngine(threshold): the engine constructed with a chosen threshold
InitThreshold ==
    /\ InitFields
    /\ threshold \in Thresholds

SpecDiagnose == InitThreshold /\ [][NextDiagnose]_vars

\* diagnose called on a newly constructed engine with threshold th and run to
\* its return with nothing else touching the engine: the dict it returns
diagnose(symptom_ids, user_cf, kb, th) ==
    diagnose_result(symptom_ids, kb,
                    forward_chaining(kb.rules,
                                     initial_facts_cf(symptom_ids, user_cf, kb),
                                     NoLimit, TRUE),
                    th)

\* ------------------------- diagnose calls of two threads on one engine

\* the arguments the two sessions call diagnose with
ConcurrentKBs == {TieKB}

ConcurrentSymptomLists == { << "S1", "S2" >>, << "S1" >>, << "S2" >> }

ConcurrentUserCFs == {1000000}

\* thread t calls diagnose, up to the first test of forward chaining's while
\* loop: self.working_memory and self.explanation are replaced, the locals of
\* _inference_loop are the thread's own
RunDiagnose(t, symptom_ids, user_cf, kb) ==
    /\ runs[t].pc = "idle"
    /\ working_memory' =
         [present  |-> TRUE,
          facts_cf |-> add_initial_facts(initial_facts_cf(symptom_ids, user_cf, kb))]
    /\ explanation' = [present |-> TRUE, trace |-> << >>]
    /\ runs' = [runs EXCEPT ![t] =
                  [pc          |-> "loop",
                   symptom_ids |-> symptom_ids,
                   user_cf     |-> user_cf,
                   kb          |-> kb,
                   rules       |-> kb.rules,
                   max_steps   |-> initial_max_steps(kb.rules, NoLimit),
                   used_rules  |-> << >>,
                   fired       |-> TRUE,
                   step_no     |-> 0,
                   idx         |-> Len(kb.rules) + 1]]
    /\ UNCHANGED << loopVars, wmVars, bcVars, diagVars, sugVars, pageVars >>

\* thread t: the while test succeeds
RunNextSweep(t) ==
    /\ runs[t].pc = "loop"
    /\ runs[t].idx > Len(runs[t].rules)
    /\ runs[t].fired /\ runs[t].step_no < runs[t].max_steps
    /\ runs' = [runs EXCEPT ![t].fired = FALSE, ![t].idx = 1]
    /\ UNCHANGED << engineVars, wmVars, bcVars, diagVars, sugVars, pageVars >>

\* thread t: _can_fire_rule(rule) is false on the store the engine holds now
RunSkipRule(t) ==
    /\ runs[t].pc = "loop"
    /\ runs[t].idx <= Len(runs[t].rules)
    /\ ~can_fire_rule(working_memory.facts_cf, runs[t].rules[runs[t].idx])
    /\ runs' = [runs EXCEPT ![t].idx = @ + 1]
    /\ UNCHANGED << engineVars, wmVars, bcVars, diagVars, sugVars, pageVars >>

\* thread t: _fire_rule returns None
RunFireRuleNone(t) ==
    /\ runs[t].pc = "loop"
    /\ runs[t].idx <= Len(runs[t].rules)
    /\ LET facts == working_memory.facts_cf
           rule  == runs[t].rules[runs[t].idx]
       IN  /\ can_fire_rule(facts, rule)
           /\ fire_returns_none(facts, rule)
           /\ working_memory' =
                IF rule.Then = NoThen THEN working_memory
                ELSE [working_memory EXCEPT !.facts_cf = fire_write(facts, rule)]
    /\ runs' = [runs EXCEPT ![t].idx = @ + 1]
    /\ UNCHANGED << explanation, loopVars, wmVars, bcVars, diagVars, sugVars,
                    pageVars >>

\* thread t: _fire_rule writes to the store and appends to the recorder the
\* engine holds now
RunFireRule(t) ==
    /\ runs[t].pc = "loop"
    /\ runs[t].idx <= Len(runs[t].rules)
    /\ LET facts == working_memory.facts_cf
           rule  == runs[t].rules[runs[t].idx]
       IN  /\ can_fire_rule(facts, rule)
           /\ ~fire_returns_none(facts, rule)
           /\ working_memory' =
                [working_memory EXCEPT !.facts_cf = fire_write(facts, rule)]
           /\ explanation' =
                add_trace_step(explanation,
                               reasoning_step(facts, rule, runs[t].step_no + 1))
           /\ runs' = [runs EXCEPT ![t].idx = @ + 1,
                                   ![t].fired = TRUE,
                                   ![t].step_no = @ + 1,
                                   ![t].used_rules = Append(@, rule.id)]
    /\ UNCHANGED << loopVars, wmVars, bcVars, diagVars, sugVars, pageVars >>

\* thread t: the while test fails, forward_chaining builds its result from
\* the store and the recorder the engine holds now, diagnose returns
RunReturn(t) ==
    /\ runs[t].pc = "loop"
    /\ runs[t].idx > Len(runs[t].rules)
    /\ ~(runs[t].fired /\ runs[t].step_no < runs[t].max_steps)
    /\ LET fwd_result == [returned    |-> TRUE,
                          facts_cf    |-> working_memory.facts_cf,
                          conclusions |-> working_memory.facts_cf,
                          used_rules  |-> runs[t].used_rules,
                          trace       |-> result_trace(explanation)]
       IN  runs' = [runs EXCEPT ![t] =
                      [pc          |-> "done",
                       symptom_ids |-> runs[t].symptom_ids,
                       user_cf     |-> runs[t].user_cf,
                       kb          |-> runs[t].kb,
                       fwd_result  |-> fwd_result,
                       result      |-> diagnose_result(runs[t].symptom_ids,
                                           runs[t].kb, fwd_result, threshold)]]
    /\ UNCHANGED << engineVars, wmVars, bcVars, diagVars, sugVars, pageVars >>

NextConcurrent ==
    \E t \in Threads :
        \/ \E symptom_ids \in ConcurrentSymptomLists, user_cf \in ConcurrentUserCFs,
              kb \in ConcurrentKBs : RunDiagnose(t, symptom_ids, user_cf, kb)
        \/ RunNextSweep(t)
        \/ RunSkipRule(t)
        \/ RunFireRuleNone(t)
        \/ RunFireRule(t)
        \/ RunReturn(t)

SpecConcurrent == Init /\ [][NextConcurrent]_vars

\* ------------- forward and backward chaining on the same rules and facts

\* a chain listed goal first, so that a sweep of the forward loop derives one
\* link of it
EpsChainRules ==
    << Rule("R2", <<"P1">>, "P2", 1000000),
       Rule("R1", <<"G1">>, "P1", 1000000) >>

NoiseIds == << "N1", "N2", "N3", "N4", "N5", "N6", "N7", "N8", "N9", "N10", "N11" >>

\* a chain of five links listed goal first, its first link P1 concluded by
\* eleven rules
CapRules ==
    << Rule("R5", <<"P4">>, "P5", 1000000),
       Rule("R4", <<"P3">>, "P4", 1000000),
       Rule("R3", <<"P2">>, "P3", 1000000),
       Rule("R2", <<"P1">>, "P2", 1000000) >>
    \o [i \in 1..Len(NoiseIds) |-> Rule(NoiseIds[i], <<"G1">>, "P1", 1000000)]

AgreeRuleBases ==
    {TestRules, ChainRules, CycleRules, OddRules, AltRules, SiblingRules,
     DerivedCycleRules, EpsChainRules, CapRules}

\* G1 alone with CF 1e-6, and with CF 0.1
TinyG1 == ("G1" :> 1)

LowG1 == ("G1" :> 100000)

\* fact sets whose CFs are all within (0,1]
PositiveFactSets == {TestFacts, OnlyG1, TinyG1, LowG1}

AgreeGoals == Goals \cup {"P4", "P5"}

\* forward_chaining(rules, facts_cf) with the default cap, on a new engine
AgreeForward(rb, facts_cf) ==
    /\ calls = 0
    /\ ForwardChaining(rb, facts_cf, NoLimit, FALSE)

\* backward_chaining(rules, facts_cf, goal) with the rules and facts the
\* forward_chaining call was given
AgreeBackward(goal) ==
    /\ pc = "done"
    /\ BackwardChaining(call.rules, call.initial_facts_cf, goal, call.kb)

NextAgree ==
    \/ \E rb \in AgreeRuleBases, facts_cf \in PositiveFactSets :
          AgreeForward(rb, facts_cf)
    \/ NextSweep
    \/ SkipRule
    \/ FireRuleNone
    \/ FireRule
    \/ Return
    \/ \E goal \in AgreeGoals : AgreeBackward(goal)

SpecAgree == Init /\ [][NextAgree]_vars

\* ------------------------------------------- the Diagnosis page (run())

\* st.session_state.diagnosis_result = None
NoDiagnosisResult == [status |-> "None"]

\* the default of the confidence slider, and the value reset_diagnosis_state
\* writes
DefaultUserCF == 800000

\* MockKB with a symptom in the catalogue that no rule names
SpareKB ==
    KB("SpareKB", MockKB.rules, MockKB.symptoms @@ ("S3" :> 800000),
       MockKB.diseases)

\* the knowledge base get_db caches
PageKBs == KnowledgeBases \cup {SpareKB}

\* what symptom_multiselect can return for the button to be enabled: a
\* non-empty list of ids, which ClickRun requires to be in the catalogue
PageSymptomLists == { l \in SymptomLists : Len(l) > 0 }

\* values of the confidence slider
PageUserCFs == {0, DefaultUserCF, 1000000}

\* the displays of run() that end a consultation
FinalDisplays == {"SUCCESS", "INCONCLUSIVE", "FAILED", "NO_FURTHER", "ALTERNATIVES"}

\* run(): the initialisation of st.session_state (result_saved is read with
\* a default of False); display is what the last script run rendered, rerun
\* is set from a click handler's st.rerun() until the next script run;
\* answers, saved and saved_before record the questions answered and the
\* consultations written since the last reset, and those written in the
\* consultation before it
new_session(kb) ==
    [open              |-> TRUE,
     kb                |-> kb,
     initial_symptoms  |-> << >>,
     diagnosis_result  |-> NoDiagnosisResult,
     show_alternatives |-> FALSE,
     alternatives_data |-> << >>,
     user_cf           |-> DefaultUserCF,
     result_saved      |-> FALSE,
     questions_queue   |-> << >>,
     asked_symptoms    |-> {},
     display           |-> "NONE",
     rerun             |-> TRUE,
     answers           |-> << >>,
     saved             |-> 0,
     saved_before      |-> 0]

\* save_current_diagnosis without the result_saved test
save_current_diagnosis_unguarded(s, written) ==
    IF written
    THEN [s EXCEPT !.result_saved = TRUE, !.saved = @ + 1]
    ELSE s

\* save_current_diagnosis: written tells whether storage.save_consultation
\* wrote the history file or raised before it did
save_current_diagnosis(s, written) ==
    IF s.result_saved THEN s
    ELSE IF written
         THEN [s EXCEPT !.result_saved = TRUE, !.saved = @ + 1]
         ELSE s

\* reset_diagnosis_state
reset_diagnosis_state(s) ==
    [s EXCEPT !.diagnosis_result  = NoDiagnosisResult,
              !.initial_symptoms  = << >>,
              !.show_alternatives = FALSE,
              !.alternatives_data = << >>,
              !.user_cf           = DefaultUserCF,
              !.result_saved      = FALSE,
              !.questions_queue   = << >>,
              !.asked_symptoms    = {},
              !.answers           = << >>,
              !.saved_before      = s.saved,
              !.saved             = 0]

\* the orders in which list(missing) can hold the ids of a set
Orderings(S) ==
    { f \in [1..Cardinality(S) -> S] :
        \A i, j \in 1..Cardinality(S) : f[i] = f[j] => i = j }

\* the queue filter that lets every missing symptom through
not_yet_asked_any(sid, asked) == TRUE

\* run(): if sid not in st.session_state.asked_symptoms
not_yet_asked(sid, asked) == sid \notin asked

\* run(): the entries one suggestion adds to all_missing, its missing ids
\* listed in the given order
missing_questions(suggested, order, asked) ==
    LET kept == SelectSeq(order, LAMBDA sid : not_yet_asked(sid, asked))
    IN  [i \in 1..Len(kept) |->
            [s_id |-> kept[i], d_id |-> suggested.disease_id,
             d_percent |-> suggested.percentage]]

RECURSIVE all_missing_lists(_, _)
\* run(): the lists all_missing can be, one for every order of the missing
\* ids of every suggestion
all_missing_lists(suggestions, asked) ==
    IF Len(suggestions) = 0 THEN { << >> }
    ELSE { missing_questions(Head(suggestions), order, asked) \o rest :
             order \in Orderings(Head(suggestions).missing_symptom_ids),
             rest \in all_missing_lists(Tail(suggestions), asked) }

RECURSIVE unique_missing(_, _)
\* run(): list({q['s_id']: q for q in all_missing}.values()): a symptom keeps
\* the place of its first entry and the contents of its last
unique_missing(all_missing, acc) ==
    IF Len(all_missing) = 0 THEN acc
    ELSE LET q == Head(all_missing)
         IN  unique_missing(Tail(all_missing),
                IF \E i \in 1..Len(acc) : acc[i].s_id = q.s_id
                THEN [i \in 1..Len(acc) |->
                        IF acc[i].s_id = q.s_id THEN q ELSE acc[i]]
                ELSE Append(acc, q))

\* run(): the queues the NEEDS_MORE_INFO branch can go on with
filled_queues(s) ==
    IF Len(s.questions_queue) = 0 /\ Len(s.diagnosis_result.suggestions) > 0
    THEN { unique_missing(all_missing, << >>) :
             all_missing \in all_missing_lists(s.diagnosis_result.suggestions,
                                               s.asked_symptoms) }
    ELSE { s.questions_queue }

\* run(): the truth value of st.session_state.diagnosis_result
has_result(s) == s.diagnosis_result.status # NoDiagnosisResult.status

\* run(): if not diagnosis_result and not show_alternatives
input_block(s) == ~has_result(s) /\ ~s.show_alternatives

\* run() up to the place where it waits for a click: what it writes to the
\* session state and what it renders
rendered(s, queue, written) ==
    IF input_block(s) THEN [s EXCEPT !.display = "INPUT"]
    ELSE IF has_result(s)
    THEN IF s.diagnosis_result.status = "NEEDS_MORE_INFO"
         THEN IF Len(queue) > 0
              THEN [s EXCEPT !.questions_queue = queue, !.display = "QUESTION"]
              ELSE [save_current_diagnosis(s, written) EXCEPT
                      !.questions_queue = queue, !.display = "NO_FURTHER"]
         ELSE [save_current_diagnosis(s, written) EXCEPT
                 !.display = s.diagnosis_result.status]
    ELSE [s EXCEPT !.display = "ALTERNATIVES"]

\* the queues run() can go on with in the state s
render_queues(s) ==
    IF has_result(s) /\ s.diagnosis_result.status = "NEEDS_MORE_INFO"
    THEN filled_queues(s)
    ELSE { s.questions_queue }

\* the first script run of a browser session
OpenPage(kb) ==
    /\ ~session.open
    /\ session' = new_session(kb)
    /\ UNCHANGED << engineVars, wmVars, bcVars, diagVars, sugVars, runVars >>

\* a script run in which no button is pressed
Render ==
    /\ session.open
    /\ \E queue \in render_queues(session), written \in BOOLEAN :
          session' = [rendered(session, queue, written) EXCEPT !.rerun = FALSE]
    /\ UNCHANGED << engineVars, wmVars, bcVars, diagVars, sugVars, runVars >>

\* the button "Jalankan Diagnosis" with the given selection and slider value
ClickRun(selected_symptom_ids, user_cf) ==
    /\ session.open
    /\ ~session.rerun
    /\ session.display = "INPUT"
    /\ SeqToSet(selected_symptom_ids) \subseteq DOMAIN session.kb.symptoms
    /\ session' = [session EXCEPT
                     !.user_cf = user_cf,
                     !.initial_symptoms = selected_symptom_ids,
                     !.diagnosis_result = diagnose(selected_symptom_ids, user_cf,
                                                   session.kb, threshold),
                     !.rerun = TRUE]
    /\ UNCHANGED << engineVars, wmVars, bcVars, diagVars, sugVars, runVars >>

\* the button "Ya, Benar" under the question at the head of the queue
AnswerYes ==
    /\ session.open
    /\ ~session.rerun
    /\ session.display = "QUESTION"
    /\ LET symptom_id_to_add == Head(session.questions_queue).s_id
           symptom_ids == Append(session.initial_symptoms, symptom_id_to_add)
       IN  session' = [session EXCEPT
                         !.initial_symptoms = symptom_ids,
                         !.asked_symptoms = @ \cup {symptom_id_to_add},
                         !.questions_queue = << >>,
                         !.diagnosis_result = diagnose(symptom_ids, session.user_cf,
                                                       session.kb, threshold),
                         !.answers = Append(@, [s_id |-> symptom_id_to_add,
                                                yes |-> TRUE]),
                         !.rerun = TRUE]
    /\ UNCHANGED << engineVars, wmVars, bcVars, diagVars, sugVars, runVars >>

\* the button "Tidak, Gejala ini tidak ada"
AnswerNo ==
    /\ session.open
    /\ ~session.rerun
    /\ session.display = "QUESTION"
    /\ \E written \in BOOLEAN :
          LET symptom_id_to_add == Head(session.questions_queue).s_id
              s1 == [session EXCEPT
                       !.asked_symptoms = @ \cup {symptom_id_to_add},
                       !.questions_queue = Tail(@),
                       !.answers = Append(@, [s_id |-> symptom_id_to_add,
                                              yes |-> FALSE]),
                       !.rerun = TRUE]
          IN  session' =
                 IF Len(s1.questions_queue) = 0
                 THEN [save_current_diagnosis(s1, written) EXCEPT
                         !.show_alternatives = TRUE,
                         !.alternatives_data = session.diagnosis_result.suggestions,
                         !.diagnosis_result = NoDiagnosisResult]
                 ELSE s1
    /\ UNCHANGED << engineVars, wmVars, bcVars, diagVars, sugVars, runVars >>

\* the buttons "Diagnosis Baru" and "Coba Lagi" of the final displays: the
\* script run renders the display again, then resets
ClickReset ==
    /\ session.open
    /\ ~session.rerun
    /\ session.display \in FinalDisplays
    /\ \E queue \in render_queues(session), written \in BOOLEAN :
          session' = [reset_diagnosis_state(rendered(session, queue, written))
                      EXCEPT !.rerun = TRUE]
    /\ UNCHANGED << engineVars, wmVars, bcVars, diagVars, sugVars, runVars >>

NextPage ==
    \/ \E kb \in PageKBs : OpenPage(kb)
    \/ Render
    \/ \E selected_symptom_ids \in PageSymptomLists,
          user_cf \in PageUserCFs : ClickRun(selected_symptom_ids, user_cf)
    \/ AnswerYes
    \/ AnswerNo
    \/ ClickReset

SpecPage == Init /\ [][NextPage]_vars

\* the page when every st.rerun() is followed by its script run and no
\* question is left on display for ever: the two answer buttons are enabled
\* together and either click disables both, so the fairness of one of them
\* says that the user answers, with yes or with no
SpecPageLive ==
    /\ SpecPage
    /\ WF_vars(Render)
    /\ WF_vars(AnswerNo)

\* ----------------------------------------------------------------- claims

\* C1: in one forward-chaining run no rule fires more than once: every rule
\* id appears at most once in the returned used_rules.
C1_EachRuleFiresAtMostOnce ==
    result.returned =>
        \A i, j \in 1..Len(result.used_rules) :
            i # j => result.used_rules[i] # result.used_rules[j]

\* C2: forward_chaining terminates, also over a rule base with a dependency
\* cycle, and returns a result: a call takes at most max_steps sweeps of
\* |rules| + 1 steps each and one step to return (the steps of a running call
\* are a total case split of the loop position, so one of them is always
\* possible), and the call that left the loop has returned its result.
C2_ForwardChainingTerminates ==
    /\ steps <= Max2(max_steps, 0) * (Len(rules) + 1) + 1
    /\ pc = "loop" => idx \in 1..(Len(rules) + 1)
    /\ pc = "done" => result.returned

\* a run over the cyclic rule base in which both rules fired has returned
C2_Witness ==
    /\ pc = "done"
    /\ result.returned
    /\ call.rules = CycleRules
    /\ {"RA", "RB"} \subseteq SeqToSet(result.used_rules)

\* C3: the number of firings of one run never exceeds the cap: the limit
\* when one is given, 100 otherwise.
C3_FiringsWithinCap ==
    result.returned =>
        Len(result.used_rules) <=
            (IF call.limit # NoLimit THEN call.limit ELSE 100)

\* C4: after a firing the consequent's CF is old + p * (1 - old) clamped to
\* [0,1], where old is its CF before the firing (0 if absent) and p is the
\* minimum antecedent CF times the rule's CF, clamped to [0,1].
C4_FiringCombinesMinTimesRuleCF ==
    last.kind = "fired" =>
        LET rule   == rules[last.idx]
            before == last.facts_before
            old    == IF rule.Then \in DOMAIN before THEN before[rule.Then] ELSE 0
            ants   == {before[rule.If[i]] : i \in 1..Len(rule.If)}
            lowest == CHOOSE m \in ants : \A x \in ants : m <= x
            cf     == IF rule.CF = NoCF THEN Scale ELSE rule.CF
            p      == Clamp(Mul(lowest, cf))
        IN  working_memory.facts_cf[rule.Then] = Clamp(old + Mul(p, Scale - old))

\* a rule with antecedents of different CFs fired onto a consequent that
\* already had a positive CF
C4_Witness ==
    /\ last.kind = "fired"
    /\ LET rule   == rules[last.idx]
           before == last.facts_before
       IN  /\ rule.Then \in DOMAIN before
           /\ before[rule.Then] > 0
           /\ Cardinality({before[rule.If[i]] : i \in 1..Len(rule.If)}) >= 2

\* C5: every certainty factor stored in working memory is in [0,1], whatever
\* the inputs: out-of-range values are clamped at the write.
C5_StoredCFsInUnitRange ==
    /\ \A f \in DOMAIN wm.facts : 0 <= wm.facts[f] /\ wm.facts[f] <= Scale
    /\ \A d \in DOMAIN wm.inferred_diseases :
          0 <= wm.inferred_diseases[d] /\ wm.inferred_diseases[d] <= Scale
    /\ working_memory.present =>
          \A f \in DOMAIN working_memory.facts_cf :
              0 <= working_memory.facts_cf[f] /\ working_memory.facts_cf[f] <= Scale

\* C6: the CF combination returns a value in [0,1] for every pair of inputs.
C6_CombineInUnitRange ==
    combine_call.called =>
        /\ combine_call.ok
        /\ 0 <= combine_call.value
        /\ combine_call.value <= Scale

\* C7: during a forward-chaining run no fact's CF decreases from one step to
\* the next, and no fact disappears.
C7_FactCFNeverDecreases ==
    [][pc = "loop" =>
          \A f \in DOMAIN working_memory.facts_cf :
              /\ f \in DOMAIN working_memory'.facts_cf
              /\ working_memory'.facts_cf[f] >= working_memory.facts_cf[f]]_vars

\* a firing raised the CF of a fact that was already in working memory
C7_Witness ==
    /\ last.kind = "fired"
    /\ LET then == rules[last.idx].Then
       IN  /\ then \in DOMAIN last.facts_before
           /\ working_memory.facts_cf[then] > last.facts_before[then]
           /\ last.facts_before[then] > 0

\* the rule at the for loop's position can fire, has a consequent, and
\* combining its proposed CF raises the consequent's CF by at most 1e-6
InsignificantAttempt ==
    /\ pc = "loop"
    /\ idx <= Len(rules)
    /\ can_fire_rule(working_memory.facts_cf, rules[idx])
    /\ rules[idx].Then # NoThen
    /\ fire_write(working_memory.facts_cf, rules[idx])[rules[idx].Then]
         - get_fact(working_memory.facts_cf, rules[idx].Then) <= Eps

\* C8: an attempt whose combined CF exceeds the previous CF by no more than
\* 1e-6 adds nothing to used_rules or to the trace and does not count as a
\* firing, and after a sweep without a firing the loop ends.
C8_InsignificantFiringNotRecorded ==
    [][/\ InsignificantAttempt /\ idx' # idx =>
            /\ used_rules' = used_rules
            /\ explanation' = explanation
            /\ step_no' = step_no
            /\ fired' = fired
       /\ pc = "loop" /\ idx > Len(rules) /\ ~fired => pc' = "done"]_vars

\* a run that fired rules has returned after a sweep whose last attempt
\* changed its consequent by a positive amount of at most 1e-6
C8_Witness ==
    /\ pc = "done"
    /\ ~fired
    /\ Len(used_rules) > 0
    /\ last.kind = "insignificant"
    /\ LET then == rules[last.idx].Then
       IN  /\ then # NoThen
           /\ working_memory.facts_cf[then] > get_fact(last.facts_before, then)

\* C9: the returned trace has one record per fired rule, in firing order, the
\* i-th record naming the i-th fired rule with step number i.
C9_TraceMatchesUsedRules ==
    result.returned =>
        /\ Len(result.trace) = Len(result.used_rules)
        /\ \A i \in 1..Len(result.trace) :
              /\ result.trace[i].rule = result.used_rules[i]
              /\ result.trace[i].step = i

\* C10: with R1: G1,G2 -> P1 (0.8), R3: P1,G3 -> P3 (0.9) and the facts
\* G1 = 1.0, G2 = 0.9, G3 = 0.8, the run ends with P1 at 0.72 and P3 at 0.648
\* (within 1e-6).
C10_ChainedDerivationCFs ==
    (/\ result.returned
     /\ call.rules = ChainRules
     /\ call.initial_facts_cf = TestFacts
     /\ call.limit = NoLimit) =>
        /\ {"P1", "P3"} \subseteq DOMAIN result.conclusions
        /\ Abs(result.conclusions["P1"] - 720000) <= Eps
        /\ Abs(result.conclusions["P3"] - 648000) <= Eps

\* C11: a rule fires only if, when the for loop reaches it, its antecedent
\* list is not empty, every antecedent id is in the fact set and it has a
\* consequent; and a fact appears in the fact set during a run only as the
\* consequent of such a rule, so the consequent of a rule that never becomes
\* eligible stays absent.
C11_FiresOnlyWhenAntecedentsPresent ==
    [][pc = "loop" =>
          LET eligible ==
                /\ idx <= Len(rules)
                /\ Len(rules[idx].If) > 0
                /\ \A i \in 1..Len(rules[idx].If) :
                      rules[idx].If[i] \in DOMAIN working_memory.facts_cf
                /\ rules[idx].Then # NoThen
          IN  /\ used_rules' # used_rules =>
                    /\ eligible
                    /\ used_rules' = Append(used_rules, rules[idx].id)
              /\ \A f \in DOMAIN working_memory'.facts_cf :
                    f \notin DOMAIN working_memory.facts_cf =>
                        eligible /\ rules[idx].Then = f]_vars

\* a run over the malformed rules returned: R8, whose two antecedents were
\* present, fired; R4 (no antecedents) and R5 (no consequent) did not, and
\* R4's consequent P1 is absent
C11_Witness ==
    /\ pc = "done"
    /\ result.returned
    /\ call.rules = OddRules
    /\ "R8" \in SeqToSet(result.used_rules)
    /\ "R4" \notin SeqToSet(result.used_rules)
    /\ "R5" \notin SeqToSet(result.used_rules)
    /\ "P1" \notin DOMAIN result.facts_cf

\* the outcome of one antecedent inside the top-level backward_chaining call
\* for bc.goal: its CF as a known fact, else the result of proving it as a
\* sub-goal
bc_antecedent(a) ==
    IF known_fact(bc.facts_cf, a)
    THEN [success |-> TRUE, cf |-> bc.facts_cf[a]]
    ELSE backward_chaining(bc.rules, bc.facts_cf, a, {bc.goal}, 2)

\* the rules of the call's rule base that conclude bc.goal and whose
\* antecedents can all be proved
bc_proved ==
    {i \in 1..Len(bc.rules) :
        /\ bc.rules[i].Then = bc.goal
        /\ Len(bc.rules[i].If) > 0
        /\ \A j \in 1..Len(bc.rules[i].If) :
              bc_antecedent(bc.rules[i].If[j]).success}

\* min(antecedent CFs) x rule CF, clamped to [0,1], of the i-th rule
bc_candidate_cf(i) ==
    LET rule == bc.rules[i]
        cfs  == {bc_antecedent(rule.If[j]).cf : j \in 1..Len(rule.If)}
        low  == CHOOSE m \in cfs : \A x \in cfs : m <= x
    IN  Clamp(Mul(low, IF rule.CF = NoCF THEN Scale ELSE rule.CF))

\* C12: when rules concluding the goal can be fully proved, backward_chaining
\* returns the highest candidate CF among them, whatever their order, a
\* candidate's CF being min(antecedent CFs) x rule CF clamped to [0,1].
C12_BackwardReturnsBestCandidate ==
    (bc.called /\ ~known_fact(bc.facts_cf, bc.goal) /\ bc_proved # {}) =>
        /\ \A i \in bc_proved : bc.result.cf >= bc_candidate_cf(i)
        /\ \E i \in bc_proved : bc.result.cf = bc_candidate_cf(i)
        /\ bc.result.cf > 0 => bc.result.success

\* P1 was proved over a rule base in which the first rule concluding it (RX,
\* CF 0.5) yields less than the second (RY, CF 0.72): the result is RY's
C12_Witness ==
    /\ bc.called
    /\ bc.rules = AltRules
    /\ bc.facts_cf = TestFacts
    /\ bc.goal = "P1"
    /\ Cardinality(bc_proved) = 2
    /\ bc.result.success
    /\ bc.result.cf = 720000
    /\ bc.result.used_rules = << "RY" >>

RECURSIVE derivable(_, _)
\* the facts that can be derived from the set known by rules with a
\* non-empty antecedent list: the least set closed under the rules
derivable(rb, known) ==
    LET new == {rb[i].Then : i \in {k \in 1..Len(rb) :
                    /\ Len(rb[k].If) > 0
                    /\ rb[k].Then # NoThen
                    /\ \A j \in 1..Len(rb[k].If) : rb[k].If[j] \in known}}
    IN  IF new \subseteq known THEN known ELSE derivable(rb, known \cup new)

\* the facts of the call with CF > 0
bc_known == {f \in DOMAIN bc.facts_cf : bc.facts_cf[f] > 0}

\* C13: a goal that cannot be proved (it is not a known fact with CF > 0 and
\* every rule concluding it, if any, has an antecedent that is neither such
\* a fact nor provable in turn) yields the unsuccessful result: success
\* False, cf 0, no used rules, no trace, and nothing is raised.
C13_BackwardFailsCleanly ==
    (bc.called /\ bc.goal \notin derivable(bc.rules, bc_known)) =>
        /\ ~bc.result.raised
        /\ ~bc.result.success
        /\ bc.result.cf = 0
        /\ bc.result.used_rules = << >>
        /\ bc.result.trace = << >>

\* P1 was asked for with only G1 known, R1 needing G1 and G2
C13_Witness ==
    /\ bc.called
    /\ bc.rules = TestRules
    /\ bc.facts_cf = OnlyG1
    /\ bc.goal = "P1"
    /\ ~bc.result.success
    /\ bc.result.cf = 0

\* the facts that rules of the call's rule base conclude
bc_consequents ==
    {bc.rules[i].Then : i \in 1..Len(bc.rules)} \ {NoThen}

\* C14: backward_chaining terminates, also over rule bases with circular
\* dependencies: it returns a result without exhausting the recursion, and
\* the nesting of calls never exceeds the number of distinct rule
\* consequents plus one, because a goal already on the branch is not
\* expanded again.
C14_BackwardChainingTerminates ==
    bc.called =>
        /\ ~bc.result.raised
        /\ bc.result.depth <= Cardinality(bc_consequents) + 1
        /\ bc.result.depth <= MaxDepth

\* G1 was asked for over the cycle RA: G1 -> G2, RB: G2 -> G1 with nothing
\* known: G1 needs G2, G2 needs G1, which is on the branch, and the call
\* returned a failure from the third frame
C14_Witness ==
    /\ bc.called
    /\ bc.rules = CycleRules
    /\ bc.facts_cf = NoFacts
    /\ bc.goal = "G1"
    /\ ~bc.result.success
    /\ ~bc.result.raised
    /\ bc.result.depth = 3

\* the sequence s in reverse order
reversed(s) == [i \in 1..Len(s) |-> s[Len(s) + 1 - i]]

\* the rule base rb iterated in the order p, the rules of rev with their
\* antecedents listed in reverse
reordered(rb, p, rev) ==
    [i \in 1..Len(rb) |->
        IF p[i] \in rev THEN [rb[p[i]] EXCEPT !.If = reversed(@)] ELSE rb[p[i]]]

\* C15: the success flag and the CF that backward_chaining returns for a
\* goal are the same for every iteration order of the rule base and every
\* order of the rules' antecedents: an attempt that failed on one antecedent
\* or one candidate rule leaves no mark on the attempts that follow it.
C15_BackwardOrderIndependent ==
    bc.called =>
        \A p \in Permutations(1..Len(bc.rules)), rev \in SUBSET (1..Len(bc.rules)) :
            LET other == backward_chaining(reordered(bc.rules, p, rev),
                                           bc.facts_cf, bc.goal, {}, 1)
            IN  /\ other.success = bc.result.success
                /\ other.cf = bc.result.cf
                /\ other.raised = bc.result.raised

\* P1 was proved by RS from P2 after the candidate RQ, listed first, had
\* proved P2 and then failed on G9
C15_Witness ==
    /\ bc.called
    /\ bc.rules = SiblingRules
    /\ bc.facts_cf = OnlyG1
    /\ bc.goal = "P1"
    /\ bc.result.success
    /\ bc.result.cf = 630000
    /\ bc.result.used_rules = << "RT", "RS" >>

\* the rule of the call's rule base with the given id
bc_rule(id) == CHOOSE r \in SeqToSet(bc.rules) : r.id = id

\* C16: a goal that is a known fact with CF > 0 succeeds with that CF (within
\* [0,1]) and an empty used_rules; any other successful proof lists the rule
\* that concludes the goal last and only there, and every rule in the list
\* comes after the rules that proved those of its antecedents that are not
\* known facts.
C16_BackwardUsedRulesOrder ==
    bc.called =>
        LET u == bc.result.used_rules
        IN  /\ known_fact(bc.facts_cf, bc.goal) =>
                  /\ bc.result.success
                  /\ bc.result.cf = Clamp(bc.facts_cf[bc.goal])
                  /\ u = << >>
            /\ (bc.result.success /\ ~known_fact(bc.facts_cf, bc.goal)) =>
                  /\ Len(u) >= 1
                  /\ bc_rule(u[Len(u)]).Then = bc.goal
                  /\ \A i \in 1..(Len(u) - 1) : bc_rule(u[i]).Then # bc.goal
                  /\ \A i \in 1..Len(u) :
                        \A k \in 1..Len(bc_rule(u[i]).If) :
                            LET a == bc_rule(u[i]).If[k]
                            IN  known_fact(bc.facts_cf, a) \/
                                  \E j \in 1..(i - 1) : bc_rule(u[j]).Then = a

\* P3 was proved from G1, G2, G3 over the test rules: R1, which proves the
\* sub-goal P1, is listed before R3, which concludes P3
C16_Witness ==
    /\ bc.called
    /\ bc.rules = TestRules
    /\ bc.facts_cf = TestFacts
    /\ bc.goal = "P3"
    /\ bc.result.success
    /\ bc.result.used_rules = << "R1", "R3" >>

\* C17: diagnose starts forward chaining with every selected symptom at
\* user_cf x weight clamped to [0,1], the weight being 1.0 for a symptom
\* without one or unknown to the knowledge base, for every user_cf in [0,1],
\* 0 included.
C17_InitialFactIsUserCFTimesWeight ==
    diag.called =>
        \A i \in 1..Len(diag.symptom_ids) :
            LET sid    == diag.symptom_ids[i]
                known  == sid \in DOMAIN diag.kb.symptoms
                weight == IF known /\ diag.kb.symptoms[sid] # NoWeight
                          THEN diag.kb.symptoms[sid] ELSE Scale
            IN  /\ sid \in DOMAIN diag.initial_facts_cf
                /\ diag.initial_facts_cf[sid] = Clamp(Mul(diag.user_cf, weight))

\* the highest CF a disease of the call's knowledge base has in the final
\* fact set, 0 when none is in it
diag_max_cf ==
    LET cfs == {get_fact(result.conclusions, diag.kb.diseases[k]) :
                    k \in 1..Len(diag.kb.diseases)} \cup {0}
    IN  CHOOSE m \in cfs : \A x \in cfs : x <= m

\* C18: the best disease is the disease of the knowledge base with the
\* highest CF in the final fact set, the first such disease in the
\* catalogue's order when several share it; the conclusion is that disease
\* or none, never a derived fact that is not a disease of the knowledge base.
C18_BestDiseaseIsHighestCF ==
    diagnosed =>
        LET ds   == diag.kb.diseases
            best == diag.result.best
        IN  /\ best.best_cf = diag_max_cf
            /\ diag_max_cf > 0 =>
                  \E k \in 1..Len(ds) :
                      /\ best.best_disease_id = ds[k]
                      /\ get_fact(result.conclusions, ds[k]) = diag_max_cf
                      /\ \A j \in 1..(k - 1) :
                            get_fact(result.conclusions, ds[j]) < diag_max_cf
            /\ diag_max_cf = 0 => best.best_disease_id = NoDisease
            /\ diag.result.conclusion \in {NoDisease, best.best_disease_id}
            /\ diag.result.conclusion \in SeqToSet(ds) \cup {NoDisease}

\* D1 and D2 ended with the same CF, D2's rule having fired first, and the
\* derived fact H1, not a disease, is in the fact set with a CF as high: the
\* conclusion is D1, the first in the catalogue
C18_Witness ==
    /\ diagnosed
    /\ diag.kb.name = "TieKB"
    /\ {"D1", "D2", "H1"} \subseteq DOMAIN result.conclusions
    /\ result.conclusions["D1"] = result.conclusions["D2"]
    /\ result.conclusions["H1"] >= result.conclusions["D1"]
    /\ result.used_rules[1] = "RD2"
    /\ diag.result.conclusion = "D1"

\* C19: diagnose returns SUCCESS, with the best disease as conclusion,
\* exactly when there is a best disease and its CF is at least the engine's
\* threshold; otherwise the conclusion is None and the status is one of
\* NEEDS_MORE_INFO, INCONCLUSIVE, FAILED.
C19_SuccessIffThresholdReached ==
    diagnosed =>
        /\ diag.result.status = "SUCCESS" <=>
                (diag_max_cf > 0 /\ diag_max_cf >= threshold)
        /\ diag.result.status = "SUCCESS" =>
                /\ diag.result.conclusion # NoDisease
                /\ diag.result.conclusion \in SeqToSet(diag.kb.diseases)
                /\ get_fact(result.conclusions, diag.result.conclusion) = diag_max_cf
        /\ diag.result.status # "SUCCESS" =>
                /\ diag.result.conclusion = NoDisease
                /\ diag.result.status \in {"NEEDS_MORE_INFO", "INCONCLUSIVE", "FAILED"}

\* a diagnosis succeeded with the best disease's CF equal to the threshold
C19_Witness ==
    /\ diagnosed
    /\ diag.result.status = "SUCCESS"
    /\ diag_max_cf = threshold
    /\ threshold > 0

\* C20: when no disease reaches the threshold, the status is FAILED whenever
\* forward chaining fired no rule, NEEDS_MORE_INFO when there is a
\* partial-match suggestion, INCONCLUSIVE when there is none but a rule
\* fired; the three cases exclude one another, so no run without a firing
\* has a suggestion.
C20_FailureStatusByFiringAndSuggestions ==
    (diagnosed /\ diag.result.status # "SUCCESS") =>
        LET no_firing   == Len(result.used_rules) = 0
            suggestions == Len(diag.result.suggestions) > 0
        IN  /\ no_firing => diag.result.status = "FAILED"
            /\ suggestions => diag.result.status = "NEEDS_MORE_INFO"
            /\ (~suggestions /\ ~no_firing) => diag.result.status = "INCONCLUSIVE"

\* a diagnose call has returned without a conclusion: its result holds the
\* suggestion list
diag_failed == diagnosed /\ diag.result.status # "SUCCESS"

\* the symptoms selected in the last diagnose call
diag_selected == SeqToSet(diag.symptom_ids)

\* the antecedents of rule r that are selected, and those that are not
rule_matched(r, selected) == SeqToSet(r.If) \cap selected

rule_missing(r, selected) == SeqToSet(r.If) \ selected

\* the rules of rule base rb that match the selection in part
partial_rules(rb, selected) ==
    {r \in SeqToSet(rb) : /\ Len(r.If) > 0
                          /\ r.Then # NoThen
                          /\ rule_matched(r, selected) # {}
                          /\ rule_missing(r, selected) # {}}

\* the rule of the diagnosed knowledge base behind the i-th suggestion
suggesting_rule(i) ==
    CHOOSE r \in SeqToSet(diag.kb.rules) : r.id = diag.result.suggestions[i].rule_id

\* C21: a rule contributes to the suggestions only if the selection holds at
\* least one of its antecedents and misses at least one. In the list diagnose
\* returns, every entry comes from such a rule; in the list of
\* ExplanationFacility.get_suggestions, every entry is made of such rules
\* alone: its missing ids, matched count and required count are the unions
\* over the partially matched rules of its disease, so a rule with no selected
\* antecedent and a rule that is matched in full add nothing.
C21_OnlyPartialMatchesContribute ==
    /\ diag_failed =>
         \A i \in 1..Len(diag.result.suggestions) :
            /\ rule_matched(suggesting_rule(i), diag_selected) # {}
            /\ rule_missing(suggesting_rule(i), diag_selected) # {}
    /\ sug.called =>
         \A i \in 1..Len(sug.result) :
            LET selected     == SeqToSet(sug.symptom_ids)
                contributing == {r \in partial_rules(sug.kb.rules, selected) :
                                    r.Then = sug.result[i].disease_id}
            IN  /\ contributing # {}
                /\ sug.result[i].missing_symptom_ids =
                     UNION {rule_missing(r, selected) : r \in contributing}
                /\ sug.result[i].matched_count =
                     Cardinality(UNION {rule_matched(r, selected) : r \in contributing})
                /\ sug.result[i].total_required =
                     Cardinality(UNION {SeqToSet(r.If) : r \in contributing})

\* both lists hold suggestions while the knowledge base has a rule whose
\* antecedents are all selected and a rule none of whose antecedents is
C21_Witness ==
    /\ diag_failed
    /\ Len(diag.result.suggestions) > 0
    /\ sug.called
    /\ sug.kb = diag.kb
    /\ Len(sug.result) > 0
    /\ \E r \in SeqToSet(diag.kb.rules) :
          /\ Len(r.If) > 0
          /\ r.Then \in SeqToSet(diag.kb.diseases)
          /\ rule_missing(r, diag_selected) = {}
          /\ \E i \in 1..Len(sug.result) : sug.result[i].disease_id = r.Then
    /\ \E r \in SeqToSet(diag.kb.rules) :
          /\ Len(r.If) > 0
          /\ r.Then # NoThen
          /\ rule_matched(r, diag_selected) = {}

\* C22: the suggestion list diagnose returns is aggregated per disease: no two
\* entries have the same disease id, and the matched, missing and required
\* symptoms of an entry are the unions over all partially matched rules that
\* conclude its disease.
C22_DiagnoseSuggestionsPerDisease ==
    diag_failed =>
        LET suggestions == diag.result.suggestions
        IN  /\ \A i, j \in 1..Len(suggestions) :
                  suggestions[i].disease_id = suggestions[j].disease_id => i = j
            /\ \A i \in 1..Len(suggestions) :
                  LET contributing ==
                          {r \in partial_rules(diag.kb.rules, diag_selected) :
                              r.Then = suggestions[i].disease_id}
                  IN  /\ suggestions[i].current_symptoms =
                           UNION {rule_matched(r, diag_selected) : r \in contributing}
                      /\ suggestions[i].missing_symptom_ids =
                           UNION {rule_missing(r, diag_selected) : r \in contributing}
                      /\ suggestions[i].total_required =
                           Cardinality(UNION {SeqToSet(r.If) : r \in contributing})

\* the position of the rule with this id in the diagnosed knowledge base
rule_position(id) ==
    CHOOSE k \in 1..Len(diag.kb.rules) : diag.kb.rules[k].id = id

\* matched_count, total_required and percentage of entry e are those of the
\* symptom sets matched and required: percentage is matched / required * 100
\* (to the last digit kept)
counts_of(e, matched, required) ==
    /\ e.matched_count = Cardinality(matched)
    /\ e.total_required = Cardinality(required)
    /\ e.percentage * Cardinality(required) <= Cardinality(matched) * 100 * Scale
    /\ (e.percentage + 1) * Cardinality(required) > Cardinality(matched) * 100 * Scale

\* list is in descending order of percentage
sorted_descending(list) ==
    \A i, j \in 1..Len(list) : i < j => list[i].percentage >= list[j].percentage

\* C23: every suggestion reports matched_count = |matched|, total_required =
\* |required|, percentage = |matched| / |required| * 100 and the missing
\* symptom ids, all computed from which antecedents are selected and never
\* from a CF, and the list is sorted by percentage, highest first. A rule IF
\* [S1,S2] with the selection [S1] gives matched_count 1, total_required 2,
\* percentage 50 and missing [S2]. This holds for the list diagnose returns
\* (one entry per rule) and for the list of ExplanationFacility.get_suggestions
\* (one entry per disease, over the unions of its rules).
C23_SuggestionCountsAndOrder ==
    /\ diag_failed =>
         LET suggestions == diag.result.suggestions
         IN  /\ \A i \in 1..Len(suggestions) :
                   /\ counts_of(suggestions[i],
                                rule_matched(suggesting_rule(i), diag_selected),
                                SeqToSet(suggesting_rule(i).If))
                   /\ suggestions[i].missing_symptom_ids =
                        rule_missing(suggesting_rule(i), diag_selected)
             /\ sorted_descending(suggestions)
             /\ (diag.kb = MockKB /\ diag.symptom_ids = << "S1" >>) =>
                   /\ Len(suggestions) = 1
                   /\ suggestions[1].matched_count = 1
                   /\ suggestions[1].total_required = 2
                   /\ suggestions[1].percentage = 50 * Scale
                   /\ suggestions[1].missing_symptom_ids = {"S2"}
    /\ sug.called =>
         /\ \A i \in 1..Len(sug.result) :
               LET selected     == SeqToSet(sug.symptom_ids)
                   contributing == {r \in partial_rules(sug.kb.rules, selected) :
                                       r.Then = sug.result[i].disease_id}
               IN  counts_of(sug.result[i],
                             UNION {rule_matched(r, selected) : r \in contributing},
                             UNION {SeqToSet(r.If) : r \in contributing})
         /\ sorted_descending(sug.result)

\* diagnose returned two suggestions that the sort has put in the other order
\* than their rules have in the knowledge base; the first is that of a rule
\* with two antecedents of which one is selected: 1 of 2, 50 percent
C23_Witness ==
    /\ diag_failed
    /\ Len(diag.result.suggestions) = 2
    /\ diag.result.suggestions[1].percentage = 50 * Scale
    /\ diag.result.suggestions[1].matched_count = 1
    /\ diag.result.suggestions[1].total_required = 2
    /\ diag.result.suggestions[1].percentage > diag.result.suggestions[2].percentage
    /\ rule_position(diag.result.suggestions[1].rule_id) >
          rule_position(diag.result.suggestions[2].rule_id)

\* C24: every forward_chaining call starts from a fresh fact store and a
\* fresh trace recorder: the facts and the trace it returns are those the same
\* arguments give on a newly constructed engine, whatever calls were made on
\* the engine before.
C24_ResultDependsOnInputsOnly ==
    result.returned =>
        LET alone == forward_chaining(call.rules, call.initial_facts_cf,
                                      call.limit, call.kb)
        IN  /\ result.facts_cf = alone.facts_cf
            /\ result.trace = alone.trace

\* C28: the facts_before of a trace step is the set of fact ids working
\* memory held just before the firing and its facts_after the set it holds
\* just after, also when the derived fact was present before the firing.
C28_TraceSnapshotsAreFactSets ==
    (last.kind = "fired" /\ explanation.present) =>
        LET step == explanation.trace[Len(explanation.trace)]
        IN  /\ step.facts_before = get_facts_set(last.facts_before)
            /\ step.facts_after = get_facts_set(working_memory.facts_cf)

\* a CF within [0,1]
in_unit_range(cf) == 0 <= cf /\ cf <= Scale

\* C26: new evidence for a fact working memory already holds is combined with
\* the stored CF, old + new * (1 - old), and never overwrites it: for a
\* symptom asserted again with add_symptom and for a disease inferred again
\* with add_inferred_disease (CFs within [0,1]).
C26_NewEvidenceIsCombined ==
    [][\A cf \in CFInputs :
          /\ \A s \in SymptomIds :
                (/\ AddSymptom(s, cf)
                 /\ s \in DOMAIN wm.facts
                 /\ in_unit_range(wm.facts[s])
                 /\ in_unit_range(cf))
                => wm'.facts[s] = wm.facts[s] + Mul(cf, Scale - wm.facts[s])
          /\ \A d \in DiseaseIds :
                (/\ AddInferredDisease(d, cf)
                 /\ d \in DOMAIN wm.inferred_diseases
                 /\ in_unit_range(wm.inferred_diseases[d])
                 /\ in_unit_range(cf))
                => wm'.inferred_diseases[d] =
                      wm.inferred_diseases[d]
                         + Mul(cf, Scale - wm.inferred_diseases[d])]_vars

\* C25: two diagnose calls that overlap in time on the shared engine do not
\* interleave their writes: each returns the final facts, the fired rules and
\* the trace it returns when it runs alone.
C25_ConcurrentRunsAreIsolated ==
    \A t \in Threads :
        runs[t].pc = "done" =>
            LET alone == forward_chaining(runs[t].kb.rules,
                             initial_facts_cf(runs[t].symptom_ids,
                                              runs[t].user_cf, runs[t].kb),
                             NoLimit, TRUE)
            IN  /\ runs[t].fwd_result.facts_cf = alone.facts_cf
                /\ runs[t].result.used_rules = alone.used_rules
                /\ runs[t].result.trace = alone.trace

\* C29: forward and backward chaining agree: for facts with CFs within (0,1],
\* whenever backward_chaining proves a goal with CF c, forward_chaining from
\* the same rules and facts, with its default cap, has the goal among its
\* conclusions with a CF of at least c.
C29_ForwardCoversBackward ==
    (/\ result.returned
     /\ bc.called
     /\ bc.rules = call.rules
     /\ bc.facts_cf = call.initial_facts_cf
     /\ bc.result.success)
    => /\ bc.goal \in DOMAIN result.conclusions
       /\ result.conclusions[bc.goal] >= bc.result.cf

\* the ids a knowledge base names as symptoms: the entries of its symptom
\* catalogue and the antecedents of its rules
kb_symptom_ids(kb) ==
    DOMAIN kb.symptoms
        \cup UNION { SeqToSet(kb.rules[i].If) : i \in 1..Len(kb.rules) }

\* the ids of the questions still in the queue
queued_ids == { session.questions_queue[i].s_id :
                  i \in 1..Len(session.questions_queue) }

\* the page shows the question at the head of the queue
question_shown ==
    session.open /\ ~session.rerun /\ session.display = "QUESTION"

\* C27: within one consultation the page never asks about a symptom that was
\* already answered: no symptom of asked_symptoms is in the questions queue,
\* at its head or behind it, and no symptom is answered twice; a symptom
\* answered with yes is in the symptom list and the result on display is
\* diagnose run on that list, a symptom answered with no is not in it.
C27_NeverAsksAnAnsweredSymptom ==
    session.open =>
        /\ queued_ids \cap session.asked_symptoms = {}
        /\ \A i, j \in 1..Len(session.answers) :
              session.answers[i].s_id = session.answers[j].s_id => i = j
        /\ session.asked_symptoms =
              { session.answers[i].s_id : i \in 1..Len(session.answers) }
        /\ \A i \in 1..Len(session.answers) :
              session.answers[i].yes
                 <=> session.answers[i].s_id \in SeqToSet(session.initial_symptoms)
        /\ has_result(session) =>
              session.diagnosis_result =
                 diagnose(session.initial_symptoms, session.user_cf,
                          session.kb, threshold)

\* a question is shown after a no and a yes, while a suggestion of the
\* result on display still lacks the symptom answered with no
C27_Witness ==
    /\ question_shown
    /\ \E i, j \in 1..Len(session.answers) :
          /\ i < j
          /\ ~session.answers[i].yes
          /\ session.answers[j].yes
          /\ \E k \in 1..Len(session.diagnosis_result.suggestions) :
                session.answers[i].s_id
                   \in session.diagnosis_result.suggestions[k].missing_symptom_ids

\* the result in the session is NEEDS_MORE_INFO
needs_more_info ==
    /\ session.open
    /\ has_result(session)
    /\ session.diagnosis_result.status = "NEEDS_MORE_INFO"

\* the page shows one of the displays that end a consultation
final_display ==
    session.open /\ ~session.rerun /\ session.display \in FinalDisplays

\* what bounds the clarifying loop and the writes to the history
loop_bounded ==
    session.open =>
        /\ Len(session.answers) <= Cardinality(kb_symptom_ids(session.kb))
        /\ Len(session.answers) = Cardinality(session.asked_symptoms)
        /\ session.asked_symptoms \cup queued_ids
              \subseteq kb_symptom_ids(session.kb)
        /\ session.saved <= 1
        /\ session.saved_before <= 1
        /\ session.result_saved <=> session.saved = 1

\* C30: the clarifying loop ends: whenever the result is NEEDS_MORE_INFO and
\* the user goes on answering, the page comes to a final display; a
\* consultation has at most as many questions as the knowledge base names
\* symptoms, each about another symptom, and it is written to the history at
\* most once.
C30_ClarifyingLoopEnds ==
    /\ []loop_bounded
    /\ needs_more_info ~> final_display

\* a consultation that took three questions has come to a final display and
\* is in the history
C30_Witness ==
    /\ final_display
    /\ Len(session.answers) >= 3
    /\ session.saved = 1
    /\ session.result_saved


====
